---- MODULE Spec2Model ----
(***************************************************************************)
(* Checkpointed batch discovery pipeline of kwcc_tdz:                      *)
(*   src/src/lambda_handlers/batch_discovery.py  (handler)                 *)
(*   src/src/discovery/checkpoint.py             (checkpoint + manager)    *)
(*   src/src/discovery/batch_processor.py        (rider history scanner)   *)
(*   src/src/discovery/results_fetcher.py        (event result fetcher)    *)
(*   src/src/persistence/raw_events.py           (raw event accumulator)   *)
(*                                                                         *)
(* Time is counted in hours.  ISO timestamps are modelled by the hour      *)
(* number, the empty string "" of a timestamp field by NoTime.  A Lambda   *)
(* invocation lasts at most 15 minutes, so the clock does not advance      *)
(* while an invocation is in progress.                                     *)
(***************************************************************************)
EXTENDS Integers, Sequences, FiniteSets, TLC

(***************************************************************************)
(* Bounds of the model                                                     *)
(***************************************************************************)
MaxInvocations == 2
MaxTicks == 2

(***************************************************************************)
(* Program constants                                                       *)
(***************************************************************************)
CHECKPOINT_TTL_HOURS == 24
RIDER_BATCH_SIZE == 5
EVENT_BATCH_SIZE == 3

NoTime == 0

(***************************************************************************)
(* Sequence helpers                                                        *)
(***************************************************************************)
Range(s) == {s[i] : i \in 1..Len(s)}

Contains(s, x) == \E i \in 1..Len(s) : s[i] = x

Take(s, n) == SubSeq(s, 1, IF Len(s) < n THEN Len(s) ELSE n)

RECURSIVE FilterNotIn(_, _)
FilterNotIn(s, excluded) ==
    IF s = <<>> THEN <<>>
    ELSE IF Head(s) \in excluded THEN FilterNotIn(Tail(s), excluded)
    ELSE <<Head(s)>> \o FilterNotIn(Tail(s), excluded)

RECURSIVE FilterNonEmpty(_)
FilterNonEmpty(s) ==
    IF s = <<>> THEN <<>>
    ELSE IF Head(s) = "" THEN FilterNonEmpty(Tail(s))
    ELSE <<Head(s)>> \o FilterNonEmpty(Tail(s))

(***************************************************************************)
(* The fixed universe: tour configuration, rider registry, upstream        *)
(***************************************************************************)
StageWindow(s) ==
    IF s = "1" THEN [start |-> 10, end |-> 20]
    ELSE [start |-> 15, end |-> 30]

\* zwiftpower_id of each registry entry, in registry order; "" is a rider
\* without a ZwiftPower ID, "r2" is registered twice
Registry == <<"r1", "r2", "", "r2", "r3", "r4", "r5", "r6">>

RiderIds == {"r1", "r2", "r3", "r4", "r5", "r6"}

EventIds == {"e1", "e2", "e3", "e4", "e5", "e6", "e9"}

TDZ1 == "Tour de Zwift Stage 1"
TDZ2 == "TOUR DE ZWIFT - Stage 2"
NONTDZ == "Zwift Racing League"

\* "tour de zwift" in event_name.lower()
IsTDZName(name) == name \in {TDZ1, TDZ2}

Entry(name, ts, id) == [name |-> name, ts |-> ts, id |-> id]

\* what get_rider_history answers for each rider when the request succeeds
History(r) ==
    CASE r = "r1" -> <<Entry(TDZ1, 12, "e1")>>
      [] r = "r2" -> <<Entry(TDZ2, 17, "e2"), Entry(NONTDZ, 12, "e9")>>
      [] r = "r3" -> <<Entry(TDZ2, 17, "e2"), Entry(TDZ2, 25, "e3")>>
      [] r = "r4" -> <<Entry(TDZ1, 0, "e5"), Entry(TDZ2, 40, "e6"),
                       Entry(TDZ1, 12, "")>>
      [] r = "r5" -> <<Entry(TDZ1, 20, "e4")>>
      [] r = "r6" -> <<Entry(TDZ2, 30, "e1"), Entry(TDZ1, 13, "e5")>>
      [] OTHER -> <<>>

\* the deterministic upstream: the riders and the events whose request fails
UpstreamChoices == {[riders |-> {}, events |-> {}],
                    [riders |-> {"r3"}, events |-> {"e2"}]}

(***************************************************************************)
(* DiscoveryCheckpoint (discovery/checkpoint.py)                           *)
(***************************************************************************)
\* DiscoveryCheckpoint(): the dataclass defaults
DiscoveryCheckpoint ==
    [phase |-> "discover_riders",
     riders_processed |-> <<>>,
     events_discovered |-> <<>>,
     events_fetched |-> <<>>,
     last_updated |-> NoTime,
     run_count |-> 0,
     started_at |-> NoTime,
     completed_at |-> NoTime,
     stage_numbers |-> <<>>,
     tour_id |-> ""]

\* a to_dict that writes an empty events_fetched list
to_dict_DropsFetched(c) ==
    [phase |-> c.phase,
     riders_processed |-> c.riders_processed,
     events_discovered |-> c.events_discovered,
     events_fetched |-> <<>>,
     last_updated |-> c.last_updated,
     run_count |-> c.run_count,
     started_at |-> c.started_at,
     completed_at |-> c.completed_at,
     stage_numbers |-> c.stage_numbers,
     tour_id |-> c.tour_id]

\* to_dict followed by json.dumps: the stored JSON object, field by field
to_dict(c) ==
    [phase |-> c.phase,
     riders_processed |-> c.riders_processed,
     events_discovered |-> c.events_discovered,
     events_fetched |-> c.events_fetched,
     last_updated |-> c.last_updated,
     run_count |-> c.run_count,
     started_at |-> c.started_at,
     completed_at |-> c.completed_at,
     stage_numbers |-> c.stage_numbers,
     tour_id |-> c.tour_id]

\* a from_dict that reads events_discovered under a key the object lacks
from_dict_LosesDiscovered(d) ==
    [phase |-> d.phase,
     riders_processed |-> d.riders_processed,
     events_discovered |-> <<>>,
     events_fetched |-> d.events_fetched,
     last_updated |-> d.last_updated,
     run_count |-> d.run_count,
     started_at |-> d.started_at,
     completed_at |-> d.completed_at,
     stage_numbers |-> d.stage_numbers,
     tour_id |-> d.tour_id]

\* a from_dict that reads riders_processed under a key the object lacks
from_dict_LosesRiders(d) ==
    [phase |-> d.phase,
     riders_processed |-> <<>>,
     events_discovered |-> d.events_discovered,
     events_fetched |-> d.events_fetched,
     last_updated |-> d.last_updated,
     run_count |-> d.run_count,
     started_at |-> d.started_at,
     completed_at |-> d.completed_at,
     stage_numbers |-> d.stage_numbers,
     tour_id |-> d.tour_id]

\* a from_dict that reads events_fetched under a key the object lacks
from_dict_LosesFetched(d) ==
    [phase |-> d.phase,
     riders_processed |-> d.riders_processed,
     events_discovered |-> d.events_discovered,
     events_fetched |-> <<>>,
     last_updated |-> d.last_updated,
     run_count |-> d.run_count,
     started_at |-> d.started_at,
     completed_at |-> d.completed_at,
     stage_numbers |-> d.stage_numbers,
     tour_id |-> d.tour_id]

\* json.loads followed by from_dict
from_dict(d) ==
    [phase |-> d.phase,
     riders_processed |-> d.riders_processed,
     events_discovered |-> d.events_discovered,
     events_fetched |-> d.events_fetched,
     last_updated |-> d.last_updated,
     run_count |-> d.run_count,
     started_at |-> d.started_at,
     completed_at |-> d.completed_at,
     stage_numbers |-> d.stage_numbers,
     tour_id |-> d.tour_id]

\* an is_expired that already expires at the TTL itself
is_expired_AtTTL(c, t) ==
    IF c.completed_at = NoTime THEN FALSE
    ELSE t >= c.completed_at + CHECKPOINT_TTL_HOURS

is_expired(c, t) ==
    IF c.completed_at = NoTime THEN FALSE
    ELSE t > c.completed_at + CHECKPOINT_TTL_HOURS

\* a get_pending_riders that answers every rider, processed or not
get_pending_riders_All(c, all_riders) == all_riders

\* all_riders is the list of rider IDs (riders_with_ids)
get_pending_riders(c, all_riders) ==
    FilterNotIn(all_riders, Range(c.riders_processed))

DiscoveredIds(c) ==
    [i \in 1..Len(c.events_discovered) |-> c.events_discovered[i].id]

\* a get_pending_events that reports nothing pending
get_pending_events_None(c) == <<>>

get_pending_events(c) ==
    FilterNotIn(DiscoveredIds(c), Range(c.events_fetched))

\* a mark_rider_processed that records nothing
mark_rider_processed_Forgets(c, rider_id) == c

mark_rider_processed(c, rider_id) ==
    IF Contains(c.riders_processed, rider_id) THEN c
    ELSE [c EXCEPT !.riders_processed = Append(@, rider_id)]

\* an add_discovered_event that appends the stage without looking
add_discovered_event_Repeats(c, event_id, event_name, timestamp, stage_number) ==
    IF ~Contains(DiscoveredIds(c), event_id)
    THEN [c EXCEPT !.events_discovered =
             Append(@, [id |-> event_id,
                        event_name |-> event_name,
                        timestamp |-> timestamp,
                        stage_numbers |-> <<stage_number>>])]
    ELSE LET i == CHOOSE j \in 1..Len(c.events_discovered) :
                      c.events_discovered[j].id = event_id
         IN [c EXCEPT !.events_discovered[i].stage_numbers =
                Append(@, stage_number)]

\* events_discovered is a dict in insertion order: a sequence of records
\* keyed by id
add_discovered_event(c, event_id, event_name, timestamp, stage_number) ==
    IF ~Contains(DiscoveredIds(c), event_id)
    THEN [c EXCEPT !.events_discovered =
             Append(@, [id |-> event_id,
                        event_name |-> event_name,
                        timestamp |-> timestamp,
                        stage_numbers |-> <<stage_number>>])]
    ELSE LET i == CHOOSE j \in 1..Len(c.events_discovered) :
                      c.events_discovered[j].id = event_id
         IN IF Contains(c.events_discovered[i].stage_numbers, stage_number)
            THEN c
            ELSE [c EXCEPT !.events_discovered[i].stage_numbers =
                     Append(@, stage_number)]

mark_event_fetched(c, event_id) ==
    IF Contains(c.events_fetched, event_id) THEN c
    ELSE [c EXCEPT !.events_fetched = Append(@, event_id)]

update_timestamp(c, t) == [c EXCEPT !.last_updated = t]

increment_run_count(c, t) ==
    [c EXCEPT !.run_count = @ + 1,
              !.started_at = IF @ = NoTime THEN t ELSE @]

mark_complete(c, t) ==
    [c EXCEPT !.phase = "complete", !.completed_at = t]

(***************************************************************************)
(* CheckpointManager: the stored object is <<>> when the key is absent and *)
(* <<d>> when it holds the JSON object d                                   *)
(***************************************************************************)
\* CheckpointManager.load when get_object does not fail with a transport error
CheckpointLoad(obj, t) ==
    IF obj = <<>> THEN DiscoveryCheckpoint
    ELSE IF is_expired(from_dict(obj[1]), t) THEN DiscoveryCheckpoint
    ELSE from_dict(obj[1])

\* CheckpointManager.save when put_object succeeds: the checkpoint with its
\* new last_updated, and the object written
CheckpointSaved(c, t) == update_timestamp(c, t)

CheckpointObject(c, t) == <<to_dict(update_timestamp(c, t))>>

(***************************************************************************)
(* Rider history scanner (discovery/batch_processor.py)                    *)
(***************************************************************************)
\* an is_in_stage_range whose window excludes its end
is_in_stage_range_Exclusive(event_timestamp, stage_start, stage_end) ==
    IF event_timestamp = 0 THEN FALSE
    ELSE stage_start <= event_timestamp /\ event_timestamp < stage_end

is_in_stage_range(event_timestamp, stage_start, stage_end) ==
    IF event_timestamp = 0 THEN FALSE
    ELSE stage_start <= event_timestamp /\ event_timestamp <= stage_end

\* build_stages_info: number and window of each stage to process
build_stages_info(stages) ==
    [i \in 1..Len(stages) |->
        [number |-> stages[i],
         start_date |-> StageWindow(stages[i]).start,
         end_date |-> StageWindow(stages[i]).end]]

\* get_rider_race_history: a failed request is caught and answers []
get_rider_race_history(rider_id, failing) ==
    IF rider_id \in failing THEN <<>> ELSE History(rider_id)

\* the inner loop of process_rider over the stages, for one history entry
RECURSIVE MatchStages(_, _, _)
MatchStages(c, e, stages) ==
    IF stages = <<>> THEN c
    ELSE LET s == Head(stages)
             c1 == IF is_in_stage_range(e.ts, s.start_date, s.end_date)
                   THEN add_discovered_event(c, e.id, e.name, e.ts, s.number)
                   ELSE c
         IN MatchStages(c1, e, Tail(stages))

\* the loop of process_rider over the history entries
RECURSIVE ScanHistory(_, _, _)
ScanHistory(c, history, stages) ==
    IF history = <<>> THEN c
    ELSE LET e == Head(history)
             c1 == IF ~IsTDZName(e.name) THEN c
                   ELSE IF e.id = "" THEN c
                   ELSE MatchStages(c, e, stages)
         IN ScanHistory(c1, Tail(history), stages)

\* TRUE when process_rider issues the upstream history request
RiderRequested(c, rider_id) ==
    rider_id /= "" /\ ~Contains(c.riders_processed, rider_id)

\* a process_rider that leaves a rider whose request failed unmarked
process_rider_SkipsFailed(c, rider_id, stages, failing) ==
    IF rider_id = "" THEN c
    ELSE IF Contains(c.riders_processed, rider_id) THEN c
    ELSE IF rider_id \in failing THEN c
    ELSE mark_rider_processed(
             ScanHistory(c, get_rider_race_history(rider_id, failing), stages),
             rider_id)

\* the checkpoint after process_rider
process_rider(c, rider_id, stages, failing) ==
    IF rider_id = "" THEN c
    ELSE IF Contains(c.riders_processed, rider_id) THEN c
    ELSE mark_rider_processed(
             ScanHistory(c, get_rider_race_history(rider_id, failing), stages),
             rider_id)

\* events_found of process_rider: the stage matches of the history entries
RECURSIVE CountFound(_, _)
CountFound(history, stages) ==
    IF history = <<>> THEN 0
    ELSE LET e == Head(history)
         IN (IF IsTDZName(e.name) /\ e.id /= ""
             THEN Cardinality({i \in 1..Len(stages) :
                      is_in_stage_range(e.ts, stages[i].start_date,
                                        stages[i].end_date)})
             ELSE 0)
            + CountFound(Tail(history), stages)

\* the count process_rider returns
process_rider_found(c, rider_id, stages, failing) ==
    IF rider_id = "" THEN 0
    ELSE IF Contains(c.riders_processed, rider_id) THEN 0
    ELSE CountFound(get_rider_race_history(rider_id, failing), stages)

RECURSIVE process_batch(_, _, _, _)
process_batch(c, riders, stages, failing) ==
    IF riders = <<>> THEN c
    ELSE process_batch(process_rider(c, Head(riders), stages, failing),
                       Tail(riders), stages, failing)

(***************************************************************************)
(* Event result fetcher (discovery/results_fetcher.py)                     *)
(***************************************************************************)
\* an is_cached that never finds the object
is_cached_Never(cached, event_id) == FALSE

\* an is_cached that finds an object for every event
is_cached_Always(cached, event_id) == TRUE

\* is_cached when head_object does not fail with a transport error
is_cached(cached, event_id) == event_id \in cached

\* TRUE when fetch_event issues the upstream get_event_results request
EventRequested(c, cached, event_id) ==
    ~Contains(c.events_fetched, event_id) /\ ~is_cached(cached, event_id)

\* the checkpoint after fetch_event: every path that does not raise marks
\* the event fetched, the first one finds it marked already
fetch_event(c, event_id) == mark_event_fetched(c, event_id)

\* the results cache after fetch_event when every storage call succeeds
fetch_event_cache(c, cached, event_id, failing) ==
    IF EventRequested(c, cached, event_id) /\ event_id \notin failing
    THEN cached \cup {event_id}
    ELSE cached

\* len(results) of the upstream answer for an event
EventResults(event_id) == IF event_id = "e3" THEN 0 ELSE 2

\* what fetch_event returns when every storage call succeeds: the result
\* count and the cache key, <<>> for the empty key
fetch_event_returns(c, cached, event_id, failing) ==
    IF Contains(c.events_fetched, event_id)
    THEN [count |-> 0, key |-> <<>>]
    ELSE IF is_cached(cached, event_id)
    THEN [count |-> 0, key |-> <<event_id>>]
    ELSE IF event_id \in failing
    THEN [count |-> 0, key |-> <<>>]
    ELSE [count |-> EventResults(event_id), key |-> <<event_id>>]

\* get_fetched_events_from_checkpoint, in events_discovered order
RECURSIVE FetchedOf(_, _)
FetchedOf(discovered, fetched) ==
    IF discovered = <<>> THEN <<>>
    ELSE IF Head(discovered).id \in fetched
         THEN <<Head(discovered)>> \o FetchedOf(Tail(discovered), fetched)
         ELSE FetchedOf(Tail(discovered), fetched)

get_fetched_events_from_checkpoint(c) ==
    FetchedOf(c.events_discovered, Range(c.events_fetched))

(***************************************************************************)
(* Raw event accumulator (persistence/raw_events.py).  A mapping is a      *)
(* sequence of records in insertion order, keyed by zid.                   *)
(***************************************************************************)
RawIds(m) == {m[i].zid : i \in 1..Len(m)}

\* a load_events that answers the empty mapping whatever is stored
load_events_Forgets(obj) == <<>>

\* load_events when get_object does not fail with a transport error
load_events(obj) == IF obj = <<>> THEN <<>> ELSE obj[1]

\* the record merge_events writes for a candidate
NewRecord(e, t) ==
    [zid |-> e.id, name |-> e.name, timestamp |-> e.timestamp,
     discovery_timestamp |-> t]

\* a merge that stamps every record a candidate names with the merge time
RECURSIVE merge_events_Restamps(_, _, _)
merge_events_Restamps(existing, new_events, t) ==
    IF new_events = <<>> THEN existing
    ELSE LET e == Head(new_events)
             merged ==
                 IF e.id = "" THEN existing
                 ELSE IF e.id \in {existing[i].zid : i \in 1..Len(existing)}
                 THEN [i \in 1..Len(existing) |->
                          IF existing[i].zid = e.id
                          THEN [existing[i] EXCEPT !.discovery_timestamp = t]
                          ELSE existing[i]]
                 ELSE Append(existing, NewRecord(e, t))
         IN merge_events_Restamps(merged, Tail(new_events), t)

\* a merge where the candidate's name and timestamp replace the stored ones
RECURSIVE merge_events_Overwrites(_, _, _)
merge_events_Overwrites(existing, new_events, t) ==
    IF new_events = <<>> THEN existing
    ELSE LET e == Head(new_events)
             merged ==
                 IF e.id = "" THEN existing
                 ELSE IF e.id \in {existing[i].zid : i \in 1..Len(existing)}
                 THEN [i \in 1..Len(existing) |->
                          IF existing[i].zid = e.id
                          THEN [existing[i] EXCEPT !.name = e.name,
                                                   !.timestamp = e.timestamp]
                          ELSE existing[i]]
                 ELSE Append(existing, NewRecord(e, t))
         IN merge_events_Overwrites(merged, Tail(new_events), t)

\* merge_events; a candidate is [id, name, timestamp], t the discovery time
RECURSIVE merge_events(_, _, _)
merge_events(existing, new_events, t) ==
    IF new_events = <<>> THEN existing
    ELSE LET e == Head(new_events)
             merged == IF e.id = "" THEN existing
                       ELSE IF e.id \in RawIds(existing) THEN existing
                       ELSE Append(existing,
                                [zid |-> e.id,
                                 name |-> e.name,
                                 timestamp |-> e.timestamp,
                                 discovery_timestamp |-> t])
         IN merge_events(merged, Tail(new_events), t)

\* event names of the accumulator, lower-cased by get_stage_events
StageNames ==
    {"tour de zwift stage 1", "tour de zwift stage 1 advanced",
     "stage 1 advanced", "stage 1 race", "tour de zwift stage 1 run",
     "tour de zwift stage 2"}

\* stage_pattern in event_name, for stage_number 1
HasStagePattern(name) == name /= "tour de zwift stage 2"

\* "run" in event_name
IsRunName(name) == name = "tour de zwift stage 1 run"

\* "tour de zwift" in event_name
HasTourName(name) == name \notin {"stage 1 advanced", "stage 1 race"}

\* "advanced" in event_name
IsAdvancedName(name) ==
    name \in {"tour de zwift stage 1 advanced", "stage 1 advanced"}

\* the score get_stage_events gives an event; timestamp 0 is a missing one
StageScore(e, start_ts, end_ts) ==
    (IF HasTourName(e.name) THEN 2 ELSE 0)
    + (IF IsAdvancedName(e.name) THEN -2 ELSE 0)
    + (IF e.timestamp = 0 THEN 0
       ELSE IF start_ts <= e.timestamp /\ e.timestamp <= end_ts THEN 3
       ELSE -1)

\* list.sort(key=score, reverse=True): stable, insert behind equal scores
RECURSIVE SortByScore(_)
SortByScore(s) ==
    IF s = <<>> THEN <<>>
    ELSE LET sorted == SortByScore(SubSeq(s, 1, Len(s) - 1))
             x == s[Len(s)]
             k == Cardinality({i \in 1..Len(sorted) :
                                  sorted[i].score >= x.score})
         IN SubSeq(sorted, 1, k) \o <<x>> \o SubSeq(sorted, k + 1, Len(sorted))

RECURSIVE MatchingEvents(_, _, _)
MatchingEvents(events, start_ts, end_ts) ==
    IF events = <<>> THEN <<>>
    ELSE LET e == Head(events)
             rest == MatchingEvents(Tail(events), start_ts, end_ts)
         IN IF ~HasStagePattern(e.name) \/ IsRunName(e.name) THEN rest
            ELSE <<[id |-> e.zid, timestamp |-> e.timestamp,
                    score |-> StageScore(e, start_ts, end_ts)]>> \o rest

\* get_stage_events for stage 1: the matching events as (id, timestamp)
get_stage_events(events, start_ts, end_ts) ==
    LET m == SortByScore(MatchingEvents(events, start_ts, end_ts))
    IN [i \in 1..Len(m) |-> <<m[i].id, m[i].timestamp>>]

\* the new_events list process_and_generate_website builds
NewEvents(c) ==
    LET f == get_fetched_events_from_checkpoint(c)
    IN [i \in 1..Len(f) |->
           [id |-> f[i].id, name |-> f[i].event_name,
            timestamp |-> f[i].timestamp]]

(***************************************************************************)
(* State                                                                   *)
(***************************************************************************)
VARIABLES
    now,          \* wall clock, in hours
    stored,       \* object discovery/checkpoint.json: <<>> or <<dict>>
    cache,        \* event IDs with an object raw/events/<id>/results.json
    raw,          \* object raw/events/tdz_events.json: <<>> or <<mapping>>
    failR,        \* upstream: riders whose history request fails
    failE,        \* upstream: events whose result request fails
    pc,           \* position of the running invocation, "idle" when none
    mem,          \* the handler's checkpoint variable: <<>> or <<checkpoint>>
    stages,       \* stage_numbers of stages_to_process
    batch,        \* items of the current batch still to process
    more,         \* more_remaining of the current batch
    origin,       \* where the in-memory checkpoint comes from
    result,       \* outcome of the last invocation, NoResult while one runs
    err,          \* the exception the try block caught, "none" when none
    asked,        \* riders and events requested from upstream in this run
    call,         \* the upstream request the last step sent: <<>> or <<id>>
    invocations,  \* invocations started
    pace,         \* upstream requests of this invocation against its sleeps
    args,         \* a single call under test: <<>> or <<its arguments>>
    ret           \* that call's outcome: <<>> or <<its outcome>>

vars == <<now, stored, cache, raw, failR, failE, pc, mem, stages, batch, more,
          origin, result, err, asked, call, invocations, pace, args, ret>>

\* the variables the handler never touches
unit == <<args, ret>>

TourId == "tdz-2026"

\* riders_with_ids: the registry riders with a ZwiftPower ID
riders_with_ids == FilterNonEmpty(Registry)

NoResult ==
    [kind |-> "none", statusCode |-> 0, status |-> "absent",
     error |-> "absent", phase |-> "absent", run_count |-> -1, riders_processed |-> -1,
     events_discovered |-> -1, events_fetched |-> -1]

\* a returned dict without progress fields
PlainResult(code, status) ==
    [NoResult EXCEPT !.kind = "returned", !.statusCode = code,
                     !.status = status]

\* the "complete" and "partial" dicts
ProgressResult(status, c) ==
    [kind |-> "returned", statusCode |-> 200, status |-> status,
     error |-> "absent",
     phase |-> IF status = "partial" THEN c.phase ELSE "absent",
     run_count |-> c.run_count,
     riders_processed |-> Len(c.riders_processed),
     events_discovered |-> Len(c.events_discovered),
     events_fetched |-> Len(c.events_fetched)]

\* the "error" dict of the except block; e is the exception caught
ErrorResult(c, e) ==
    [NoResult EXCEPT !.kind = "returned", !.statusCode = 500,
                     !.status = "error", !.error = e, !.phase = c.phase,
                     !.run_count = c.run_count]

\* an exception that escapes the handler: "config" for the ValueError of a
\* missing setting, "storage" for a transport error of object storage
Raised(e) == [NoResult EXCEPT !.kind = "raised", !.error = e]

Killed == [NoResult EXCEPT !.kind = "killed"]

\* pace is "clear" when no upstream request was sent in this invocation
\* since it started or since its last inter-batch sleep, "batch" when the
\* batch in progress has sent one, "due" when a batch that sent one has
\* ended and no sleep has followed.
\* the end of process_next_batch and fetch_next_batch: time.sleep is
\* called when more work remains
AfterBatch(p, more_remaining) ==
    IF more_remaining THEN "clear"
    ELSE IF p = "batch" THEN "due"
    ELSE p

Init ==
    /\ now = 1
    /\ stored = <<>>
    /\ cache = {}
    /\ raw = <<>>
    /\ \E u \in UpstreamChoices : failR = u.riders /\ failE = u.events
    /\ pc = "idle"
    /\ mem = <<>>
    /\ stages = <<>>
    /\ batch = <<>>
    /\ more = FALSE
    /\ origin = "none"
    /\ result = NoResult
    /\ err = "none"
    /\ asked = {}
    /\ call = <<>>
    /\ invocations = 0
    /\ pace = "clear"
    /\ args = <<>>
    /\ ret = <<>>

\* the invocation ends: its in-memory state is gone
Finish(res) ==
    /\ pc' = "idle"
    /\ mem' = <<>>
    /\ stages' = <<>>
    /\ batch' = <<>>
    /\ more' = FALSE
    /\ origin' = "none"
    /\ result' = res
    /\ err' = "none"
    /\ pace' = "clear"

(***************************************************************************)
(* Environment                                                             *)
(***************************************************************************)
\* the scheduled or manual trigger starts an invocation
Invoke ==
    /\ pc = "idle"
    /\ invocations < MaxInvocations
    /\ invocations' = invocations + 1
    /\ pc' = "start"
    /\ result' = NoResult
    /\ call' = <<>>
    /\ UNCHANGED <<now, stored, cache, raw, failR, failE, mem, stages, batch,
                   more, origin, err, asked>>
    /\ UNCHANGED pace
    /\ UNCHANGED unit

\* time passes between invocations
Tick ==
    /\ pc = "idle"
    /\ now + CHECKPOINT_TTL_HOURS <= 1 + MaxTicks * CHECKPOINT_TTL_HOURS
    /\ now' = now + CHECKPOINT_TTL_HOURS
    /\ call' = <<>>
    /\ UNCHANGED <<stored, cache, raw, failR, failE, pc, mem, stages, batch,
                   more, origin, result, err, asked, invocations>>
    /\ UNCHANGED pace
    /\ UNCHANGED unit

\* the host kills the invocation (timeout, crash): memory is lost, the
\* objects in storage stay
Kill ==
    /\ pc /= "idle"
    /\ Finish(Killed)
    /\ call' = <<>>
    /\ UNCHANGED <<now, stored, cache, raw, failR, failE, asked, invocations>>
    /\ UNCHANGED unit

(***************************************************************************)
(* handler, lines 334-348: configuration, force restart, checkpoint load   *)
(***************************************************************************)
\* DATA_BUCKET is not configured: ValueError escapes the handler
StartNoBucket ==
    /\ pc = "start"
    /\ Finish(Raised("config"))
    /\ call' = <<>>
    /\ UNCHANGED <<now, stored, cache, raw, failR, failE, asked, invocations>>
    /\ UNCHANGED unit

\* no force_restart in the event
StartPlain ==
    /\ pc = "start"
    /\ pc' = "load"
    /\ call' = <<>>
    /\ UNCHANGED <<now, stored, cache, raw, failR, failE, mem, stages, batch,
                   more, origin, result, err, asked, invocations>>
    /\ UNCHANGED pace
    /\ UNCHANGED unit

\* force_restart: checkpoint_mgr.clear() deletes the stored checkpoint
StartForce ==
    /\ pc = "start"
    /\ stored' = <<>>
    /\ asked' = {}
    /\ pc' = "load"
    /\ call' = <<>>
    /\ UNCHANGED <<now, cache, raw, failR, failE, mem, stages, batch, more,
                   origin, result, err, invocations>>
    /\ UNCHANGED pace
    /\ UNCHANGED unit

\* force_restart: delete_object fails, the error escapes the handler
StartForceFault ==
    /\ pc = "start"
    /\ Finish(Raised("storage"))
    /\ call' = <<>>
    /\ UNCHANGED <<now, stored, cache, raw, failR, failE, asked, invocations>>
    /\ UNCHANGED unit

\* where the checkpoint that load returns comes from
LoadOrigin(obj, t) ==
    IF obj = <<>> THEN "absent"
    ELSE IF is_expired(from_dict(obj[1]), t) THEN "expired"
    ELSE "stored"

\* checkpoint_mgr.load() and increment_run_count()
LoadOk ==
    /\ pc = "load"
    /\ mem' = <<increment_run_count(CheckpointLoad(stored, now), now)>>
    /\ origin' = LoadOrigin(stored, now)
    /\ asked' = IF origin' = "expired" THEN {} ELSE asked
    /\ pc' = "config"
    /\ call' = <<>>
    /\ UNCHANGED <<now, stored, cache, raw, failR, failE, stages, batch, more,
                   result, err, invocations>>
    /\ UNCHANGED pace
    /\ UNCHANGED unit

\* get_object fails with a transport error: load re-raises, outside the try
LoadFault ==
    /\ pc = "load"
    /\ Finish(Raised("storage"))
    /\ call' = <<>>
    /\ UNCHANGED <<now, stored, cache, raw, failR, failE, asked, invocations>>
    /\ UNCHANGED unit

(***************************************************************************)
(* handler, lines 350-420: registry, stages, stale checkpoint, credentials *)
(***************************************************************************)
\* the stage lists an invocation may be asked to process: a stage_override
\* of stage 1, or the currently active stages
StageChoices == {<<"1">>, <<"1", "2">>}

\* load_riders_from_s3 raises a transport error: caught by the try
ConfigFault ==
    /\ pc = "config"
    /\ pc' = "except"
    /\ err' = "storage"
    /\ call' = <<>>
    /\ UNCHANGED <<now, stored, cache, raw, failR, failE, mem, stages, batch,
                   more, origin, result, asked, invocations>>
    /\ UNCHANGED pace
    /\ UNCHANGED unit

\* the registry is missing or empty
ConfigNoRiders ==
    /\ pc = "config"
    /\ Finish(PlainResult(500, "absent"))
    /\ call' = <<>>
    /\ UNCHANGED <<now, stored, cache, raw, failR, failE, asked, invocations>>
    /\ UNCHANGED unit

\* stage_override names a stage the tour does not have
ConfigInvalidStage ==
    /\ pc = "config"
    /\ Finish(PlainResult(400, "absent"))
    /\ call' = <<>>
    /\ UNCHANGED <<now, stored, cache, raw, failR, failE, asked, invocations>>
    /\ UNCHANGED unit

\* no stage_override and no active stage
ConfigNoWork ==
    /\ pc = "config"
    /\ Finish(PlainResult(200, "no_work"))
    /\ call' = <<>>
    /\ UNCHANGED <<now, stored, cache, raw, failR, failE, asked, invocations>>
    /\ UNCHANGED unit

ConfigStages ==
    /\ pc = "config"
    /\ \E st \in StageChoices : stages' = st
    /\ pc' = "stagecheck"
    /\ call' = <<>>
    /\ UNCHANGED <<now, stored, cache, raw, failR, failE, mem, batch, more,
                   origin, result, err, asked, invocations>>
    /\ UNCHANGED pace
    /\ UNCHANGED unit

\* the test of lines 396-398
StageMismatch(c, st) ==
    c.stage_numbers /= <<>> /\ Range(c.stage_numbers) /= Range(st)

\* lines 408-410
InitStages(c, st) ==
    IF c.stage_numbers = <<>>
    THEN [c EXCEPT !.stage_numbers = st, !.tour_id = TourId]
    ELSE c

\* a reset that forgets to empty events_fetched
StageChecked_KeepsFetched(c, st, t) ==
    IF StageMismatch(c, st)
    THEN [InitStages(increment_run_count(DiscoveryCheckpoint, t), st)
             EXCEPT !.events_fetched = c.events_fetched]
    ELSE InitStages(c, st)

\* a reset that only retargets the old checkpoint to the requested stages
StageChecked_Retargets(c, st, t) ==
    IF StageMismatch(c, st)
    THEN [c EXCEPT !.stage_numbers = st]
    ELSE InitStages(c, st)

\* the checkpoint variable after lines 394-410
StageChecked(c, st, t) ==
    IF StageMismatch(c, st)
    THEN InitStages(increment_run_count(DiscoveryCheckpoint, t), st)
    ELSE InitStages(c, st)

StageCheckKeep ==
    /\ pc = "stagecheck"
    /\ ~StageMismatch(mem[1], stages)
    /\ mem' = <<StageChecked(mem[1], stages, now)>>
    /\ pc' = "creds"
    /\ call' = <<>>
    /\ UNCHANGED <<now, stored, cache, raw, failR, failE, stages, batch, more,
                   origin, result, err, asked, invocations>>
    /\ UNCHANGED pace
    /\ UNCHANGED unit

\* stale checkpoint: clear() and a fresh checkpoint
StageCheckReset ==
    /\ pc = "stagecheck"
    /\ StageMismatch(mem[1], stages)
    /\ stored' = <<>>
    /\ mem' = <<StageChecked(mem[1], stages, now)>>
    /\ origin' = "mismatch"
    /\ asked' = {}
    /\ pc' = "creds"
    /\ call' = <<>>
    /\ UNCHANGED <<now, cache, raw, failR, failE, stages, batch, more, result,
                   err, invocations>>
    /\ UNCHANGED pace
    /\ UNCHANGED unit

\* stale checkpoint: clear() raises, the old checkpoint stays in the variable
StageCheckResetFault ==
    /\ pc = "stagecheck"
    /\ StageMismatch(mem[1], stages)
    /\ pc' = "except"
    /\ err' = "storage"
    /\ call' = <<>>
    /\ UNCHANGED <<now, stored, cache, raw, failR, failE, mem, stages, batch,
                   more, origin, result, asked, invocations>>
    /\ UNCHANGED pace
    /\ UNCHANGED unit

\* get_zwiftpower_credentials succeeds
CredsOk ==
    /\ pc = "creds"
    /\ pc' = "loop"
    /\ call' = <<>>
    /\ UNCHANGED <<now, stored, cache, raw, failR, failE, mem, stages, batch,
                   more, origin, result, err, asked, invocations>>
    /\ UNCHANGED pace
    /\ UNCHANGED unit

\* ZWIFTPOWER_SECRET_ARN is not configured: ValueError, caught by the try
CredsMissing ==
    /\ pc = "creds"
    /\ pc' = "except"
    /\ err' = "config"
    /\ call' = <<>>
    /\ UNCHANGED <<now, stored, cache, raw, failR, failE, mem, stages, batch,
                   more, origin, result, asked, invocations>>
    /\ UNCHANGED pace
    /\ UNCHANGED unit

(***************************************************************************)
(* handler, lines 422-473: the processing loop                             *)
(***************************************************************************)
\* has_time_remaining is false: the "partial" return of lines 504-522
LoopTimeout ==
    /\ pc = "loop"
    /\ Finish(ProgressResult("partial", mem[1]))
    /\ call' = <<>>
    /\ UNCHANGED <<now, stored, cache, raw, failR, failE, asked, invocations>>
    /\ UNCHANGED unit

\* process_next_batch up to the choice of the batch
LoopRiders ==
    /\ pc = "loop"
    /\ mem[1].phase = "discover_riders"
    /\ LET pending == get_pending_riders(mem[1], riders_with_ids)
       IN /\ batch' = Take(pending, RIDER_BATCH_SIZE)
          /\ more' = (Len(pending) > Len(batch'))
          /\ pc' = IF pending = <<>> THEN "rider_save" ELSE "rider_item"
    /\ call' = <<>>
    /\ UNCHANGED <<now, stored, cache, raw, failR, failE, mem, stages, origin,
                   result, err, asked, invocations>>
    /\ UNCHANGED pace
    /\ UNCHANGED unit

\* process_batch: process_rider for the next rider of the batch
RiderItem ==
    /\ pc = "rider_item"
    /\ LET r == Head(batch)
       IN /\ call' = IF RiderRequested(mem[1], r) THEN <<r>> ELSE <<>>
          /\ asked' = IF RiderRequested(mem[1], r)
                      THEN asked \cup {r} ELSE asked
          /\ mem' = <<process_rider(mem[1], r, build_stages_info(stages),
                                    failR)>>
    /\ batch' = Tail(batch)
    /\ pc' = IF batch' = <<>> THEN "rider_save" ELSE "rider_item"
    /\ UNCHANGED <<now, stored, cache, raw, failR, failE, stages, more,
                   origin, result, err, invocations>>
    /\ pace' = IF RiderRequested(mem[1], Head(batch)) THEN "batch" ELSE pace
    /\ UNCHANGED unit

\* line 440: save after the rider batch
RiderSave ==
    /\ pc = "rider_save"
    /\ mem' = <<CheckpointSaved(mem[1], now)>>
    /\ stored' = CheckpointObject(mem[1], now)
    /\ pc' = IF more THEN "loop" ELSE "rider_trans"
    /\ call' = <<>>
    /\ UNCHANGED <<now, cache, raw, failR, failE, stages, batch, more, origin,
                   result, err, asked, invocations>>
    /\ pace' = AfterBatch(pace, more)
    /\ UNCHANGED unit

\* a save in the loop fails: put_object raises after update_timestamp
LoopSaveFault ==
    /\ pc \in {"rider_save", "fetch_save"}
    /\ mem' = <<CheckpointSaved(mem[1], now)>>
    /\ pc' = "except"
    /\ err' = "loop"
    /\ call' = <<>>
    /\ UNCHANGED <<now, stored, cache, raw, failR, failE, stages, batch, more,
                   origin, result, asked, invocations>>
    /\ pace' = AfterBatch(pace, more)
    /\ UNCHANGED unit

\* a transition out of discover_riders that assigns the wrong phase
NextPhase_Skips(c) == [c EXCEPT !.phase = "complete"]

\* the phase assignment of line 446 or 472
NextPhase(c) ==
    [c EXCEPT !.phase = IF @ = "discover_riders" THEN "fetch_results"
                        ELSE "complete"]

\* lines 446-447 and 472-473: phase transition and save
PhaseTransition ==
    /\ pc \in {"rider_trans", "fetch_trans"}
    /\ mem' = <<CheckpointSaved(NextPhase(mem[1]), now)>>
    /\ stored' = CheckpointObject(NextPhase(mem[1]), now)
    /\ pc' = "loop"
    /\ call' = <<>>
    /\ UNCHANGED <<now, cache, raw, failR, failE, stages, batch, more, origin,
                   result, err, asked, invocations>>
    /\ UNCHANGED pace
    /\ UNCHANGED unit

\* the save of the phase transition fails
PhaseTransitionFault ==
    /\ pc \in {"rider_trans", "fetch_trans"}
    /\ mem' = <<CheckpointSaved(NextPhase(mem[1]), now)>>
    /\ pc' = "except"
    /\ err' = "loop"
    /\ call' = <<>>
    /\ UNCHANGED <<now, stored, cache, raw, failR, failE, stages, batch, more,
                   origin, result, asked, invocations>>
    /\ UNCHANGED pace
    /\ UNCHANGED unit

\* fetch_next_batch up to the choice of the batch
LoopEvents ==
    /\ pc = "loop"
    /\ mem[1].phase = "fetch_results"
    /\ LET pending == get_pending_events(mem[1])
       IN /\ batch' = Take(pending, EVENT_BATCH_SIZE)
          /\ more' = (Len(pending) > Len(batch'))
          /\ pc' = IF pending = <<>> THEN "fetch_save" ELSE "fetch_item"
    /\ call' = <<>>
    /\ UNCHANGED <<now, stored, cache, raw, failR, failE, mem, stages, origin,
                   result, err, asked, invocations>>
    /\ UNCHANGED pace
    /\ UNCHANGED unit

\* fetch_event, lines 91-101: already fetched, or already in the cache
FetchSkip ==
    /\ pc = "fetch_item"
    /\ ~EventRequested(mem[1], cache, Head(batch))
    /\ mem' = <<fetch_event(mem[1], Head(batch))>>
    /\ batch' = Tail(batch)
    /\ pc' = IF batch' = <<>> THEN "fetch_save" ELSE "fetch_item"
    /\ call' = <<>>
    /\ UNCHANGED <<now, stored, cache, raw, failR, failE, stages, more,
                   origin, result, err, asked, invocations>>
    /\ UNCHANGED pace
    /\ UNCHANGED unit

\* is_cached raises a transport error: it escapes fetch_next_batch
FetchCacheFault ==
    /\ pc = "fetch_item"
    /\ ~Contains(mem[1].events_fetched, Head(batch))
    /\ pc' = "except"
    /\ err' = "loop"
    /\ call' = <<>>
    /\ UNCHANGED <<now, stored, cache, raw, failR, failE, mem, stages, batch,
                   more, origin, result, asked, invocations>>
    /\ UNCHANGED pace
    /\ UNCHANGED unit

\* fetch_event, line 118: the upstream request for the event's results
FetchRequest ==
    /\ pc = "fetch_item"
    /\ EventRequested(mem[1], cache, Head(batch))
    /\ call' = <<Head(batch)>>
    /\ asked' = asked \cup {Head(batch)}
    /\ IF Head(batch) \in failE
       THEN \* the request fails: caught, the event is marked fetched
            /\ mem' = <<fetch_event(mem[1], Head(batch))>>
            /\ batch' = Tail(batch)
            /\ pc' = IF batch' = <<>> THEN "fetch_save" ELSE "fetch_item"
       ELSE /\ pc' = "fetch_put"
            /\ UNCHANGED <<mem, batch>>
    /\ UNCHANGED <<now, stored, cache, raw, failR, failE, stages, more,
                   origin, result, err, invocations>>
    /\ pace' = "batch"
    /\ UNCHANGED unit

\* fetch_event, lines 130-142: the cache write and the mark
FetchPut ==
    /\ pc = "fetch_put"
    /\ cache' = fetch_event_cache(mem[1], cache, Head(batch), failE)
    /\ mem' = <<fetch_event(mem[1], Head(batch))>>
    /\ batch' = Tail(batch)
    /\ pc' = IF batch' = <<>> THEN "fetch_save" ELSE "fetch_item"
    /\ call' = <<>>
    /\ UNCHANGED <<now, stored, raw, failR, failE, stages, more, origin,
                   result, err, asked, invocations>>
    /\ UNCHANGED pace
    /\ UNCHANGED unit

\* the cache write fails: caught, the event is marked fetched all the same
FetchPutFault ==
    /\ pc = "fetch_put"
    /\ mem' = <<fetch_event(mem[1], Head(batch))>>
    /\ batch' = Tail(batch)
    /\ pc' = IF batch' = <<>> THEN "fetch_save" ELSE "fetch_item"
    /\ call' = <<>>
    /\ UNCHANGED <<now, stored, cache, raw, failR, failE, stages, more,
                   origin, result, err, asked, invocations>>
    /\ UNCHANGED pace
    /\ UNCHANGED unit

\* line 466: save after the event batch
FetchSave ==
    /\ pc = "fetch_save"
    /\ mem' = <<CheckpointSaved(mem[1], now)>>
    /\ stored' = CheckpointObject(mem[1], now)
    /\ pc' = IF more THEN "loop" ELSE "fetch_trans"
    /\ call' = <<>>
    /\ UNCHANGED <<now, cache, raw, failR, failE, stages, batch, more, origin,
                   result, err, asked, invocations>>
    /\ pace' = AfterBatch(pace, more)
    /\ UNCHANGED unit

(***************************************************************************)
(* handler, lines 475-534: finalization, the except block                  *)
(***************************************************************************)
LoopFinalize ==
    /\ pc = "loop"
    /\ mem[1].phase = "complete"
    /\ pc' = "finalize"
    /\ call' = <<>>
    /\ UNCHANGED <<now, stored, cache, raw, failR, failE, mem, stages, batch,
                   more, origin, result, err, asked, invocations>>
    /\ UNCHANGED pace
    /\ UNCHANGED unit

\* process_and_generate_website: the accumulator is loaded, merged with the
\* fetched events and saved.  The per-stage processing that follows changes
\* no state of this model and catches its own exceptions.
Finalize ==
    /\ pc = "finalize"
    /\ raw' = <<merge_events(load_events(raw), NewEvents(mem[1]), now)>>
    /\ pc' = "mark_complete"
    /\ call' = <<>>
    /\ UNCHANGED <<now, stored, cache, failR, failE, mem, stages, batch, more,
                   origin, result, err, asked, invocations>>
    /\ UNCHANGED pace
    /\ UNCHANGED unit

\* a registry or accumulator read, or the accumulator write, fails
FinalizeFault ==
    /\ pc = "finalize"
    /\ pc' = "except"
    /\ err' = "finalize"
    /\ call' = <<>>
    /\ UNCHANGED <<now, stored, cache, raw, failR, failE, mem, stages, batch,
                   more, origin, result, asked, invocations>>
    /\ UNCHANGED pace
    /\ UNCHANGED unit

\* lines 484-502: mark_complete, save, the "complete" return
MarkComplete ==
    /\ pc = "mark_complete"
    /\ stored' = CheckpointObject(mark_complete(mem[1], now), now)
    /\ Finish(ProgressResult("complete",
                             CheckpointSaved(mark_complete(mem[1], now), now)))
    /\ call' = <<>>
    /\ UNCHANGED <<now, cache, raw, failR, failE, asked, invocations>>
    /\ UNCHANGED unit

\* the save after mark_complete fails
MarkCompleteFault ==
    /\ pc = "mark_complete"
    /\ mem' = <<CheckpointSaved(mark_complete(mem[1], now), now)>>
    /\ pc' = "except"
    /\ err' = "loop"
    /\ call' = <<>>
    /\ UNCHANGED <<now, stored, cache, raw, failR, failE, stages, batch, more,
                   origin, result, asked, invocations>>
    /\ UNCHANGED pace
    /\ UNCHANGED unit

\* lines 524-534: save the checkpoint, return the "error" dict
Except ==
    /\ pc = "except"
    /\ stored' = CheckpointObject(mem[1], now)
    /\ Finish(ErrorResult(CheckpointSaved(mem[1], now), err))
    /\ call' = <<>>
    /\ UNCHANGED <<now, cache, raw, failR, failE, asked, invocations>>
    /\ UNCHANGED unit

\* the save of the except block fails: the error escapes the handler
ExceptFault ==
    /\ pc = "except"
    /\ Finish(Raised("storage"))
    /\ call' = <<>>
    /\ UNCHANGED <<now, stored, cache, raw, failR, failE, asked, invocations>>
    /\ UNCHANGED unit

(***************************************************************************)
(* Specification                                                           *)
(***************************************************************************)
Next ==
    \/ Invoke \/ Tick \/ Kill
    \/ StartNoBucket \/ StartPlain \/ StartForce \/ StartForceFault
    \/ LoadOk \/ LoadFault
    \/ ConfigFault \/ ConfigNoRiders \/ ConfigInvalidStage \/ ConfigNoWork
    \/ ConfigStages
    \/ StageCheckKeep \/ StageCheckReset \/ StageCheckResetFault
    \/ CredsOk \/ CredsMissing
    \/ LoopTimeout \/ LoopRiders \/ RiderItem \/ RiderSave \/ LoopSaveFault
    \/ PhaseTransition \/ PhaseTransitionFault
    \/ LoopEvents \/ FetchSkip \/ FetchCacheFault \/ FetchRequest
    \/ FetchPut \/ FetchPutFault \/ FetchSave
    \/ LoopFinalize \/ Finalize \/ FinalizeFault
    \/ MarkComplete \/ MarkCompleteFault
    \/ Except \/ ExceptFault

Spec == Init /\ [][Next]_vars

TypeOK ==
    /\ pc \in {"idle", "start", "load", "config", "stagecheck", "creds",
               "loop", "rider_item", "rider_save", "rider_trans",
               "fetch_item", "fetch_put", "fetch_save", "fetch_trans",
               "finalize", "mark_complete", "except"}
    /\ (pc \in {"idle", "start", "load"}) = (mem = <<>>)
    /\ Len(stored) <= 1
    /\ cache \subseteq EventIds
    /\ pace \in {"clear", "batch", "due"}

(***************************************************************************)
(* The uninterrupted run: the loop of the handler with unlimited budget    *)
(* and no failure of object storage, from a fresh checkpoint               *)
(***************************************************************************)
\* fetch_batch: every event of the batch ends marked fetched
RECURSIVE fetch_batch(_, _)
fetch_batch(c, event_ids) ==
    IF event_ids = <<>> THEN c
    ELSE fetch_batch(fetch_event(c, Head(event_ids)), Tail(event_ids))

\* the discover_riders iterations of the loop, until more_work is false
RECURSIVE RunRiders(_, _, _, _)
RunRiders(c, all_riders, st, failing) ==
    LET pending == get_pending_riders(c, all_riders)
    IN IF pending = <<>> THEN NextPhase(c)
       ELSE LET b == Take(pending, RIDER_BATCH_SIZE)
                c1 == process_batch(c, b, build_stages_info(st), failing)
            IN IF Len(pending) > Len(b)
               THEN RunRiders(c1, all_riders, st, failing)
               ELSE NextPhase(c1)

\* the fetch_results iterations of the loop, until more_work is false
RECURSIVE RunEvents(_)
RunEvents(c) ==
    LET pending == get_pending_events(c)
    IN IF pending = <<>> THEN NextPhase(c)
       ELSE LET b == Take(pending, EVENT_BATCH_SIZE)
                c1 == fetch_batch(c, b)
            IN IF Len(pending) > Len(b) THEN RunEvents(c1)
               ELSE NextPhase(c1)

\* the checkpoint a single invocation with unlimited budget reaches
OneShot(st, failing, t) ==
    RunEvents(RunRiders(
        StageChecked(increment_run_count(DiscoveryCheckpoint, t), st, t),
        riders_with_ids, st, failing))

\* events_discovered as event IDs with their stage sets
DiscoveredView(c) ==
    {<<c.events_discovered[i].id, Range(c.events_discovered[i].stage_numbers)>>
        : i \in 1..Len(c.events_discovered)}

FetchedView(c) == Range(c.events_fetched)

(***************************************************************************)
(* Properties                                                              *)
(***************************************************************************)
Present(x) == x /= <<>>

\* C1: resumption equivalence.  Whenever a checkpoint, stored or in memory,
\* has reached phase complete, however many invocations, timeouts, kills and
\* storage errors it took, its events_discovered (event IDs with their stage
\* sets) and events_fetched are those of one uninterrupted invocation over
\* the same riders, stages and upstream.
ResumptionEquivalence ==
    \A x \in {stored, mem} :
        (Present(x) /\ x[1].phase = "complete") =>
            LET one == OneShot(x[1].stage_numbers, failR, now)
            IN /\ DiscoveredView(x[1]) = DiscoveredView(one)
               /\ FetchedView(x[1]) = FetchedView(one)

\* a run that completed in its second invocation, resumed from the stored
\* checkpoint of the first
ResumedRunCompleted ==
    /\ Present(stored)
    /\ stored[1].phase = "complete"
    /\ stored[1].completed_at /= NoTime
    /\ stored[1].run_count = 2
    /\ Len(stored[1].events_discovered) >= 4
    /\ result.status = "complete"

\* the riders and events a checkpoint of the current run records as done;
\* a stored checkpoint that has expired belongs to an earlier run
Done(x) ==
    IF Present(x) /\ ~is_expired(x[1], now)
    THEN Range(x[1].riders_processed) \cup Range(x[1].events_fetched)
    ELSE {}

\* C2 as claimed: over the invocations of one run, kills included, no rider
\* history and no event result list is requested from upstream a second time.
NoRepeatedRequest ==
    [][call' /= <<>> => call'[1] \notin asked]_vars

\* C2 as amended: within one run, no upstream request is sent for a rider or
\* event that the stored checkpoint or the in-memory checkpoint records as
\* done, or for an event whose results are in the cache; only work that was
\* not yet saved when the invocation was killed is requested again.
NoRequestForRecordedWork ==
    [][call' /= <<>> =>
          call'[1] \notin (Done(stored) \cup Done(mem) \cup cache)]_vars

\* a later invocation, resumed from stored progress after an earlier one
\* lost its memory, has just repeated a request for unsaved work
RepeatedAfterKill ==
    /\ invocations = 2
    /\ origin = "stored"
    /\ pc = "rider_item"
    /\ call /= <<>>
    /\ stored[1].riders_processed /= <<>>
    /\ call[1] \notin Range(stored[1].riders_processed)
    /\ Cardinality(asked) = Len(riders_with_ids) - 1

\* C3: in every checkpoint, in memory and stored, events_fetched holds only
\* keys of events_discovered.
FetchedSubsetOfDiscovered ==
    \A x \in {stored, mem} :
        Present(x) =>
            Range(x[1].events_fetched) \subseteq Range(DiscoveredIds(x[1]))

\* a stored checkpoint in the middle of the fetch phase
PartlyFetched ==
    /\ Present(stored)
    /\ stored[1].events_fetched /= <<>>
    /\ Len(stored[1].events_fetched) < Len(stored[1].events_discovered)

\* the stored checkpoint of a finalized run
StoredFinalized ==
    /\ Present(stored)
    /\ stored[1].phase = "complete"
    /\ stored[1].completed_at /= NoTime

\* C4 as claimed: once the stored checkpoint is finalized, no step changes
\* it, except a force_restart (the clear of line 344), a stage-set mismatch
\* (the clear of line 403) or its replacement after TTL expiry.
CompleteIsImmutable ==
    [][(StoredFinalized /\ stored' /= stored) =>
          \/ pc = "start"
          \/ pc = "stagecheck"
          \/ origin = "expired"]_vars

PhaseRank(p) ==
    CASE p = "discover_riders" -> 0
      [] p = "fetch_results" -> 1
      [] p = "complete" -> 2

PhaseStepOK(p, q) == PhaseRank(q) \in {PhaseRank(p), PhaseRank(p) + 1}

\* C5: the phase of a checkpoint moves discover_riders -> fetch_results ->
\* complete, one phase at a time and never back: in memory, except when the
\* variable is rebound to a fresh checkpoint by the stale-checkpoint reset;
\* in storage, except when the run of an expired checkpoint is replaced; a
\* load hands over the stored phase unless the checkpoint is absent or
\* expired; and the stored checkpoint disappears only by the clear of a
\* force_restart or of the stale-checkpoint reset.
PhaseLinear ==
    [][/\ (Present(mem) /\ Present(mem')) =>
              \/ PhaseStepOK(mem[1].phase, mem'[1].phase)
              \/ (pc = "stagecheck" /\ origin' = "mismatch")
       /\ (Present(stored) /\ Present(stored')) =>
              \/ PhaseStepOK(stored[1].phase, stored'[1].phase)
              \/ origin = "expired"
       /\ (~Present(mem) /\ Present(mem')) =>
              \/ origin' \in {"absent", "expired"}
              \/ mem'[1].phase = stored[1].phase
       /\ (Present(stored) /\ ~Present(stored')) =>
              pc \in {"start", "stagecheck"}]_vars

\* a resumed invocation has moved the checkpoint on to the next phase
PhaseAdvancedOnResume ==
    /\ origin = "stored"
    /\ pc = "loop"
    /\ mem[1].run_count = 2
    /\ mem[1].phase = "complete"
    /\ stored[1].phase = "complete"
    /\ stored[1].completed_at = NoTime

\* the invocation ends in this step, and not by being killed
Ends == pc' = "idle" /\ pc /= "idle" /\ result'.kind /= "killed"

\* C6 as claimed: when an exception is raised inside the processing loop,
\* the handler saves the in-memory checkpoint and returns a result with
\* status error; the riders and events marked before the exception are in
\* the stored checkpoint afterwards.
LoopErrorIsSavedAndReturned ==
    [][(pc = "except" /\ err \in {"loop", "finalize"} /\ Ends) =>
          /\ result'.kind = "returned"
          /\ result'.status = "error"
          /\ Present(stored')
          /\ Range(mem[1].riders_processed)
                 \subseteq Range(stored'[1].riders_processed)
          /\ Range(mem[1].events_fetched)
                 \subseteq Range(stored'[1].events_fetched)]_vars

\* C7 as claimed: whatever object storage and the upstream do, no exception
\* escapes the handler (the ValueError of a missing setting apart).
HandlerNeverRaises ==
    result.kind = "raised" => result.error = "config"

\* C8 as claimed: every returned result carries a status out of complete,
\* partial, no_work, error.
StatusOnEveryReturn ==
    result.kind = "returned" =>
        result.status \in {"complete", "partial", "no_work", "error"}

\* C9 as claimed: a missing DATA_BUCKET or ZWIFTPOWER_SECRET_ARN ends the
\* invocation with the error raised, and that step leaves the stored
\* checkpoint as it is.
ConfigErrorIsFatal ==
    [][(Ends /\ (\/ (pc = "except" /\ err = "config")
                 \/ (pc = "start" /\ result'.error = "config"))) =>
          /\ result'.kind = "raised"
          /\ stored' = stored]_vars

\* C10: after the stale-checkpoint reset the handler works on a fresh
\* checkpoint: when the reset has just happened the stored checkpoint is
\* gone and the checkpoint variable holds the defaults with run_count 1 and
\* the requested stages; for the rest of the invocation run_count stays 1,
\* the stage set stays the requested one, and every rider marked processed
\* was requested from upstream after the reset.
StaleCheckpointReset ==
    origin = "mismatch" =>
        /\ Present(mem)
        /\ mem[1].run_count = 1
        /\ mem[1].stage_numbers = stages
        /\ Range(mem[1].riders_processed) \subseteq asked
        /\ pc = "creds" =>
              /\ ~Present(stored)
              /\ mem[1] = [DiscoveryCheckpoint EXCEPT
                              !.run_count = 1, !.started_at = now,
                              !.stage_numbers = stages, !.tour_id = TourId]

\* the run before the reset had fetched events, and the reset invocation has
\* processed and saved its first rider batch
ResetRunInProgress ==
    /\ origin = "mismatch"
    /\ cache /= {}
    /\ pc = "loop"
    /\ Present(stored)
    /\ Len(stored[1].riders_processed) = RIDER_BATCH_SIZE - 1

(***************************************************************************)
(* Single calls: one operation applied once to arguments drawn from small  *)
(* sets, the handler idle                                                  *)
(***************************************************************************)
handlerVars == <<now, stored, cache, raw, failR, failE, pc, mem, stages, batch,
                 more, origin, result, err, asked, call, invocations, pace>>

\* the handler's variables while no invocation runs
HandlerIdle ==
    /\ now = 1
    /\ stored = <<>>
    /\ cache = {}
    /\ raw = <<>>
    /\ failR = {}
    /\ failE = {}
    /\ pc = "idle"
    /\ mem = <<>>
    /\ stages = <<>>
    /\ batch = <<>>
    /\ more = FALSE
    /\ origin = "none"
    /\ result = NoResult
    /\ err = "none"
    /\ asked = {}
    /\ call = <<>>
    /\ invocations = 0
    /\ pace = "clear"

\* the outcome of a call: a value returned, or an exception raised
Returned(v) == [kind |-> "returned", value |-> <<v>>]

RaisedError == [kind |-> "raised", value |-> <<>>]

\* stored checkpoints: unfinished, or finished at hour CompletedHour
CompletedHour == 5

StoredSamples ==
    {to_dict([DiscoveryCheckpoint EXCEPT
                 !.phase = ph, !.riders_processed = rp, !.run_count = rc,
                 !.started_at = 1, !.last_updated = CompletedHour,
                 !.completed_at = ca, !.stage_numbers = <<"1">>,
                 !.tour_id = TourId]) :
        ph \in {"discover_riders", "fetch_results", "complete"},
        rp \in {<<>>, <<"r1", "r2">>},
        rc \in {1, 3},
        ca \in {NoTime, CompletedHour}}

\* CheckpointManager.load: get_object answers the object, NoSuchKey when
\* there is none, or fails with another ClientError
load(obj, t, fault) ==
    IF fault /= "none" THEN RaisedError
    ELSE Returned(CheckpointLoad(obj, t))

LoadArgs ==
    {[op |-> "load", obj |-> o, t |-> t, fault |-> f] :
        o \in {<<>>} \cup {<<d>> : d \in StoredSamples},
        t \in {CompletedHour + CHECKPOINT_TTL_HOURS - 1,
               CompletedHour + CHECKPOINT_TTL_HOURS,
               CompletedHour + CHECKPOINT_TTL_HOURS + 1},
        f \in {"none", "AccessDenied"}}

CallLoad ==
    /\ args /= <<>> /\ ret = <<>>
    /\ args[1].op = "load"
    /\ ret' = <<load(args[1].obj, args[1].t, args[1].fault)>>
    /\ UNCHANGED <<args, handlerVars>>

\* the key of the i-th event of an accumulator
EventIdAt(i) == <<"e1", "e2", "e3", "e4", "e5", "e6">>[i]

\* candidate lists hold at most MaxCandidates candidates
MaxCandidates == 2

SeqsUpTo(S, n) == UNION {[1..k -> S] : k \in 0..n}

\* accumulators written by earlier merges, at discovery time 1
ExistingSamples ==
    {<<>>,
     <<NewRecord([id |-> "e1", name |-> TDZ1, timestamp |-> 12], 1)>>,
     <<NewRecord([id |-> "e2", name |-> TDZ2, timestamp |-> 17], 1),
       NewRecord([id |-> "e1", name |-> TDZ1, timestamp |-> 12], 1)>>}

Candidates ==
    {[id |-> i, name |-> n, timestamp |-> ts] :
        i \in {"", "e1", "e3"}, n \in {TDZ1, TDZ2}, ts \in {12, 17}}

MergeArgs ==
    {[op |-> "merge", existing |-> e, new_events |-> c, t |-> 2] :
        e \in ExistingSamples, c \in SeqsUpTo(Candidates, MaxCandidates)}

\* merge_events called once, and once more on its own result one hour
\* later; existing is the caller's mapping after the call, which works on
\* the copy dict(existing)
CallMerge ==
    /\ args /= <<>> /\ ret = <<>>
    /\ args[1].op = "merge"
    /\ LET a == args[1]
           m == merge_events(a.existing, a.new_events, a.t)
       IN ret' = <<Returned([merged |-> m,
                            again |-> merge_events(m, a.new_events, a.t + 1),
                            existing |-> a.existing])>>
    /\ UNCHANGED <<args, handlerVars>>

\* accumulators of at most MaxEvents events; the stage window is the one of
\* stage 1, timestamps lie inside it, outside it, or are missing
MaxEvents == 3

StageEventSamples ==
    UNION {[1..k -> [name : StageNames, timestamp : {0, 12, 40}]] :
              k \in 0..MaxEvents}

StageEventsArgs ==
    {[op |-> "stage_events",
      events |-> [i \in 1..Len(m) |->
                     [zid |-> EventIdAt(i), name |-> m[i].name,
                      timestamp |-> m[i].timestamp]],
      start_ts |-> StageWindow("1").start,
      end_ts |-> StageWindow("1").end] :
        m \in StageEventSamples}

CallStageEvents ==
    /\ args /= <<>> /\ ret = <<>>
    /\ args[1].op = "stage_events"
    /\ ret' = <<Returned(get_stage_events(args[1].events, args[1].start_ts,
                                          args[1].end_ts))>>
    /\ UNCHANGED <<args, handlerVars>>

\* checkpoints a call finds: a new run, and a run that has scanned "r2"
CheckpointSamples(st) ==
    LET c0 == InitStages(increment_run_count(DiscoveryCheckpoint, 1), st)
    IN {c0, process_rider(c0, "r2", build_stages_info(st), {})}

RiderArgs ==
    {[op |-> "rider", c |-> c, rider_id |-> r, stages |-> st,
      failing |-> f] :
        st \in StageChoices, r \in RiderIds \cup {""},
        f \in {{}, RiderIds}, c \in UNION {CheckpointSamples(x) : x \in StageChoices}}

\* 1 when the call sends the history request, 0 when it does not
RiderRequests(c, rider_id) == IF RiderRequested(c, rider_id) THEN 1 ELSE 0

\* process_rider called twice in a row with the same rider and checkpoint
CallRider ==
    /\ args /= <<>> /\ ret = <<>>
    /\ args[1].op = "rider"
    /\ LET a == args[1]
           si == build_stages_info(a.stages)
           c1 == process_rider(a.c, a.rider_id, si, a.failing)
       IN ret' = <<Returned(
               [c |-> c1,
                found |-> process_rider_found(a.c, a.rider_id, si, a.failing),
                requests |-> RiderRequests(a.c, a.rider_id),
                c_again |-> process_rider(c1, a.rider_id, si, a.failing),
                found_again |->
                    process_rider_found(c1, a.rider_id, si, a.failing),
                requests_again |-> RiderRequests(c1, a.rider_id)])>>
    /\ UNCHANGED <<args, handlerVars>>

\* rider batches hold at most MaxBatch riders
MaxBatch == 2

RiderBatchArgs ==
    {[op |-> "rider_batch", c |-> c, riders |-> b, stages |-> st,
      failing |-> f] :
        st \in StageChoices, b \in SeqsUpTo(RiderIds, MaxBatch),
        f \in {{}, {"r3"}, {"r1", "r2"}},
        c \in UNION {CheckpointSamples(x) : x \in StageChoices}}

\* the events_discovered count of process_batch
RECURSIVE process_batch_found(_, _, _, _)
process_batch_found(c, riders, si, failing) ==
    IF riders = <<>> THEN 0
    ELSE process_rider_found(c, Head(riders), si, failing)
         + process_batch_found(process_rider(c, Head(riders), si, failing),
                               Tail(riders), si, failing)

CallRiderBatch ==
    /\ args /= <<>> /\ ret = <<>>
    /\ args[1].op = "rider_batch"
    /\ LET a == args[1]
           si == build_stages_info(a.stages)
       IN ret' = <<Returned(
               [c |-> process_batch(a.c, a.riders, si, a.failing),
                riders_processed |-> Len(a.riders),
                events_discovered |->
                    process_batch_found(a.c, a.riders, si, a.failing)])>>
    /\ UNCHANGED <<args, handlerVars>>

\* checkpoints of the fetch phase: every rider scanned, no event or "e1"
\* fetched
FetchSamples ==
    LET st == <<"1", "2">>
        c0 == InitStages(increment_run_count(DiscoveryCheckpoint, 1), st)
        c1 == NextPhase(process_batch(c0, riders_with_ids,
                                      build_stages_info(st), {}))
    IN {c1, mark_event_fetched(c1, "e1")}

EventArgs ==
    {[op |-> "event", c |-> c, cached |-> k, event_ids |-> b,
      failing |-> f] :
        c \in FetchSamples, k \in SUBSET {"e1", "e2"},
        b \in SeqsUpTo({"e1", "e2", "e3"}, MaxBatch) \ {<<>>},
        f \in {{}, {"e2"}, {"e1", "e3"}}}

\* the checkpoint, the cache, the requests sent, the objects written and
\* the counts returned by fetch_event for each event of a batch in turn
RECURSIVE FetchTrace(_, _, _, _)
FetchTrace(c, cached, event_ids, failing) ==
    IF event_ids = <<>> THEN <<>>
    ELSE LET e == Head(event_ids)
             c1 == fetch_event(c, e)
             k1 == fetch_event_cache(c, cached, e, failing)
         IN <<[event_id |-> e,
               c |-> c1,
               cache |-> k1,
               requested |-> EventRequested(c, cached, e),
               written |-> EventRequested(c, cached, e) /\ e \notin failing,
               returns |-> fetch_event_returns(c, cached, e, failing)]>>
            \o FetchTrace(c1, k1, Tail(event_ids), failing)

\* fetch_batch: fetch_event for each event of the list
CallEvent ==
    /\ args /= <<>> /\ ret = <<>>
    /\ args[1].op = "event"
    /\ ret' = <<Returned(FetchTrace(args[1].c, args[1].cached,
                                    args[1].event_ids, args[1].failing))>>
    /\ UNCHANGED <<args, handlerVars>>

\* rider lists passed to process_next_batch hold at most MaxRiders riders
MaxRiders == 3

\* process_next_batch: the checkpoint afterwards, the batch taken, the
\* tuple returned and whether time.sleep(batch_delay) was called
process_next_batch(c, all_riders, batch_size, si, failing) ==
    LET pending == get_pending_riders(c, all_riders)
        b == Take(pending, batch_size)
    IN IF pending = <<>>
       THEN [c |-> c, taken |-> <<>>, more_work |-> FALSE,
             riders_processed |-> 0, events_discovered |-> 0,
             slept |-> FALSE]
       ELSE [c |-> process_batch(c, b, si, failing),
             taken |-> b,
             more_work |-> Len(pending) > Len(b),
             riders_processed |-> Len(b),
             events_discovered |-> process_batch_found(c, b, si, failing),
             slept |-> Len(pending) > Len(b)]

\* the rider lists: IDs in any order, an ID listed twice, a rider without ID
NextRidersArgs ==
    {[op |-> "next_riders", c |-> c, all_riders |-> a, batch_size |-> n,
      stages |-> st, failing |-> {"r3"}] :
        st \in StageChoices,
        a \in SeqsUpTo({"r1", "r2", "r3", ""}, MaxRiders),
        n \in 1..MaxBatch,
        c \in UNION {CheckpointSamples(x) : x \in StageChoices}}

CallNextRiders ==
    /\ args /= <<>> /\ ret = <<>>
    /\ args[1].op = "next_riders"
    /\ LET a == args[1]
       IN ret' = <<Returned(process_next_batch(a.c, a.all_riders, a.batch_size,
                                build_stages_info(a.stages), a.failing))>>
    /\ UNCHANGED <<args, handlerVars>>

\* total_results of fetch_batch when every storage call succeeds
RECURSIVE fetch_batch_results(_, _, _, _)
fetch_batch_results(c, cached, event_ids, failing) ==
    IF event_ids = <<>> THEN 0
    ELSE fetch_event_returns(c, cached, Head(event_ids), failing).count
         + fetch_batch_results(
               fetch_event(c, Head(event_ids)),
               fetch_event_cache(c, cached, Head(event_ids), failing),
               Tail(event_ids), failing)

\* fetch_next_batch when every storage call succeeds: the checkpoint
\* afterwards, the batch taken, the tuple returned and whether
\* time.sleep(batch_delay) was called
fetch_next_batch(c, cached, batch_size, failing) ==
    LET pending == get_pending_events(c)
        b == Take(pending, batch_size)
    IN IF pending = <<>>
       THEN [c |-> c, taken |-> <<>>, more_work |-> FALSE,
             events_fetched |-> 0, total_results |-> 0, slept |-> FALSE]
       ELSE [c |-> fetch_batch(c, b),
             taken |-> b,
             more_work |-> Len(pending) > Len(b),
             events_fetched |-> Len(b),
             total_results |-> fetch_batch_results(c, cached, b, failing),
             slept |-> Len(pending) > Len(b)]

\* checkpoints of the fetch phase with five events discovered and none,
\* one, three, four or all of them fetched
NextEventsSamples ==
    LET c1 == CHOOSE c \in FetchSamples : c.events_fetched = <<>>
    IN {c1,
        fetch_batch(c1, <<"e1">>),
        fetch_batch(c1, <<"e3", "e1", "e2">>),
        fetch_batch(c1, <<"e1", "e2", "e3", "e4">>),
        fetch_batch(c1, <<"e1", "e2", "e3", "e4", "e5">>)}

NextEventsArgs ==
    {[op |-> "next_events", c |-> c, cached |-> k, batch_size |-> n,
      failing |-> f] :
        c \in NextEventsSamples, k \in {{}, {"e2", "e5"}},
        n \in 1..MaxBatch, f \in {{}, {"e2", "e4"}}}

CallNextEvents ==
    /\ args /= <<>> /\ ret = <<>>
    /\ args[1].op = "next_events"
    /\ LET a == args[1]
       IN ret' = <<Returned(fetch_next_batch(a.c, a.cached, a.batch_size,
                                             a.failing))>>
    /\ UNCHANGED <<args, handlerVars>>

\* upstream histories hold at most MaxHistory entries
MaxHistory == 2

\* history entries: the campaign name in upper case with a timestamp
\* missing, before, on the boundaries of, between and behind the stage
\* windows; another name; no event ID
HistoryEntries ==
    {Entry(TDZ2, ts, id) : ts \in {0, 9, 10, 20, 21, 30, 31},
                           id \in {"e1", "e2"}}
    \cup {Entry(NONTDZ, ts, "e1") : ts \in {10, 20}}
    \cup {Entry(TDZ2, ts, "") : ts \in {10, 20}}
    \cup {Entry(TDZ1, 12, "e1")}

\* process_rider, the checkpoint afterwards, when the upstream answers the
\* history request with the given history
process_rider_history(c, rider_id, si, history) ==
    IF rider_id = "" THEN c
    ELSE IF Contains(c.riders_processed, rider_id) THEN c
    ELSE mark_rider_processed(ScanHistory(c, history, si), rider_id)

\* process_rider, the count returned, for the same call
process_rider_history_found(c, rider_id, si, history) ==
    IF rider_id = "" THEN 0
    ELSE IF Contains(c.riders_processed, rider_id) THEN 0
    ELSE CountFound(history, si)

ScanArgs ==
    {[op |-> "scan", c |-> c, rider_id |-> r, stages |-> st,
      history |-> h] :
        st \in StageChoices, r \in {"r1", "r2"},
        h \in SeqsUpTo(HistoryEntries, MaxHistory),
        c \in UNION {CheckpointSamples(x) : x \in StageChoices}}

CallScan ==
    /\ args /= <<>> /\ ret = <<>>
    /\ args[1].op = "scan"
    /\ LET a == args[1]
           si == build_stages_info(a.stages)
       IN ret' = <<Returned(
               [c |-> process_rider_history(a.c, a.rider_id, si, a.history),
                found |-> process_rider_history_found(a.c, a.rider_id, si,
                                                      a.history)])>>
    /\ UNCHANGED <<args, handlerVars>>

UnitInit ==
    /\ HandlerIdle
    /\ ret = <<>>
    /\ \/ \E a \in LoadArgs : args = <<a>>
       \/ \E a \in MergeArgs : args = <<a>>
       \/ \E a \in StageEventsArgs : args = <<a>>
       \/ \E a \in RiderArgs : /\ a.c.stage_numbers = a.stages
                                /\ args = <<a>>
       \/ \E a \in RiderBatchArgs : /\ a.c.stage_numbers = a.stages
                                     /\ args = <<a>>
       \/ \E a \in EventArgs : args = <<a>>
       \/ \E a \in NextRidersArgs : /\ a.c.stage_numbers = a.stages
                                     /\ args = <<a>>
       \/ \E a \in NextEventsArgs : args = <<a>>
       \/ \E a \in ScanArgs : /\ a.c.stage_numbers = a.stages
                               /\ args = <<a>>

UnitNext ==
    \/ CallLoad
    \/ CallMerge
    \/ CallStageEvents
    \/ CallRider
    \/ CallRiderBatch
    \/ CallEvent
    \/ CallNextRiders
    \/ CallNextEvents
    \/ CallScan

UnitSpec == UnitInit /\ [][UnitNext]_vars

\* the call under test has been made
Called(op) == args /= <<>> /\ args[1].op = op /\ ret /= <<>>

\* C11: load returns the stored checkpoint field by field, except that it
\* returns the zeroed checkpoint when there is no object or when the stored
\* completed_at lies more than the TTL in the past; a storage error other
\* than the missing key is raised to the caller.
LoadReturnsStoredOrFresh ==
    Called("load") =>
        LET a == args[1]
            r == ret[1]
            old == /\ a.obj /= <<>>
                   /\ a.obj[1].completed_at /= NoTime
                   /\ a.t - a.obj[1].completed_at > CHECKPOINT_TTL_HOURS
        IN IF a.fault /= "none" THEN r.kind = "raised"
           ELSE /\ r.kind = "returned"
                /\ IF a.obj = <<>> \/ old
                   THEN /\ r.value[1] = DiscoveryCheckpoint
                        /\ r.value[1].phase = "discover_riders"
                        /\ r.value[1].run_count = 0
                   ELSE \A f \in DOMAIN a.obj[1] :
                            r.value[1][f] = a.obj[1][f]

\* a checkpoint completed exactly the TTL ago has been loaded
LoadedAtTTL ==
    /\ Called("load")
    /\ args[1].fault = "none"
    /\ args[1].obj /= <<>>
    /\ args[1].obj[1].completed_at /= NoTime
    /\ args[1].t = args[1].obj[1].completed_at + CHECKPOINT_TTL_HOURS
    /\ ret[1].value[1].phase = "complete"

\* C12: merging the same candidate list a second time into the result of
\* the first merge changes nothing, for every existing mapping and every
\* candidate list, candidates without an ID and repeated IDs included.
MergeIdempotent ==
    Called("merge") => ret[1].value[1].again = ret[1].value[1].merged

\* a merge that added a record, from a list that has a candidate without an
\* ID or names the same ID twice
MergedWithDuplicates ==
    /\ Called("merge")
    /\ Len(ret[1].value[1].merged) > Len(args[1].existing)
    /\ LET c == args[1].new_events
       IN /\ Len(c) = 2
          /\ c[1].id = "" \/ c[1].id = c[2].id

\* C13: every record of the existing mapping is in the merged mapping
\* unchanged (name, timestamp, discovery_timestamp), also when a candidate
\* carries the same ID with another name or timestamp; the mapping passed
\* in is left as it was.
MergeKeepsExisting ==
    Called("merge") =>
        LET a == args[1]
            r == ret[1].value[1]
        IN /\ \A i \in 1..Len(a.existing) :
                  \E j \in 1..Len(r.merged) :
                      r.merged[j] = a.existing[i]
           /\ \A j \in 1..Len(r.merged) :
                  r.merged[j].zid \in RawIds(a.existing) =>
                      \E i \in 1..Len(a.existing) :
                          a.existing[i] = r.merged[j]
           /\ r.existing = a.existing

\* a merge whose candidate names a stored ID with another name and timestamp
MergedConflictingCandidate ==
    /\ Called("merge")
    /\ \E i \in 1..Len(args[1].existing), k \in 1..Len(args[1].new_events) :
           /\ args[1].new_events[k].id = args[1].existing[i].zid
           /\ args[1].new_events[k].name /= args[1].existing[i].name
           /\ args[1].new_events[k].timestamp /= args[1].existing[i].timestamp

\* C14: no handler step removes an event ID from the stored accumulator or
\* changes the record stored under an ID, whatever the sequence of
\* invocations, repeated finalizations and checkpoint resets included.
RawAppendOnly ==
    [][Present(raw) =>
           /\ Present(raw')
           /\ \A i \in 1..Len(raw[1]) :
                  \E j \in 1..Len(raw'[1]) : raw'[1][j] = raw[1][i]]_vars

\* a finalization after a checkpoint reset has just merged into an
\* accumulator that an earlier finalization had written
MergedAfterReset ==
    /\ pc = "mark_complete"
    /\ origin = "mismatch"
    /\ Present(raw)
    /\ \E i \in 1..Len(raw[1]) : raw[1][i].discovery_timestamp < now
    /\ \E i \in 1..Len(raw[1]) : raw[1][i].discovery_timestamp = now

\* the score as claimed: +2 for the campaign marker, +3 inside the window,
\* -5 outside it, 0 for a missing timestamp, -2 for an advanced variant
ClaimedScore(e, start_ts, end_ts) ==
    (IF HasTourName(e.name) THEN 2 ELSE 0)
    + (IF IsAdvancedName(e.name) THEN -2 ELSE 0)
    + (IF e.timestamp = 0 THEN 0
       ELSE IF start_ts <= e.timestamp /\ e.timestamp <= end_ts THEN 3
       ELSE -5)

\* C15 as claimed: get_stage_events returns exactly the events whose name
\* has the stage pattern and is no run event, each once, in descending
\* order of the claimed score, equal scores in encounter order.
StageEventsOrderedAsClaimed ==
    Called("stage_events") =>
        LET a == args[1]
            out == ret[1].value[1]
            Pos(id) == CHOOSE i \in 1..Len(a.events) : a.events[i].zid = id
            Score(id) == ClaimedScore(a.events[Pos(id)], a.start_ts, a.end_ts)
        IN /\ {out[k][1] : k \in 1..Len(out)} =
                  {a.events[i].zid : i \in
                      {j \in 1..Len(a.events) :
                          /\ HasStagePattern(a.events[j].name)
                          /\ ~IsRunName(a.events[j].name)}}
           /\ \A k, l \in 1..Len(out) : k /= l => out[k][1] /= out[l][1]
           /\ \A k \in 1..Len(out) - 1 :
                  \/ Score(out[k][1]) > Score(out[k + 1][1])
                  \/ /\ Score(out[k][1]) = Score(out[k + 1][1])
                     /\ Pos(out[k][1]) < Pos(out[k + 1][1])

\* C16: for a rider with an ID whom the checkpoint does not list yet, two
\* process_rider calls in a row send exactly one history request, whether
\* the first call found events, found none or failed; the second call
\* returns 0 and leaves the checkpoint as the first call left it.
SecondScanSkips ==
    (/\ Called("rider")
     /\ args[1].rider_id /= ""
     /\ ~Contains(args[1].c.riders_processed, args[1].rider_id)) =>
        LET r == ret[1].value[1]
        IN /\ r.requests + r.requests_again = 1
           /\ r.found_again = 0
           /\ r.c_again = r.c

\* a rider whose first scan failed has been scanned twice
FailedRiderScannedTwice ==
    /\ Called("rider")
    /\ args[1].rider_id = "r3"
    /\ "r3" \in args[1].failing
    /\ ret[1].value[1].requests = 1

\* the timestamp lies in the window of stage s
InWindow(ts, s) ==
    ts /= 0 /\ StageWindow(s).start <= ts /\ ts <= StageWindow(s).end

\* C17: in every checkpoint, in memory and stored, an event has one record
\* under its ID; the record's stage list names no stage twice, and it names
\* every stage of the run in whose window a scanned rider's history reports
\* the event, however many riders report it and however often they are
\* scanned.
OverlapInOneRecord ==
    \A x \in {stored, mem} :
        Present(x) =>
            LET c == x[1]
                d == c.events_discovered
            IN /\ \A i, j \in 1..Len(d) : d[i].id = d[j].id => i = j
               /\ \A i \in 1..Len(d) :
                      \A k, l \in 1..Len(d[i].stage_numbers) :
                          d[i].stage_numbers[k] = d[i].stage_numbers[l] => k = l
               /\ \A r \in Range(c.riders_processed) \ failR :
                      \A k \in 1..Len(History(r)) :
                          LET e == History(r)[k]
                          IN (IsTDZName(e.name) /\ e.id /= "") =>
                                 \A s \in Range(c.stage_numbers) :
                                     InWindow(e.ts, s) =>
                                         \E i \in 1..Len(d) :
                                             /\ d[i].id = e.id
                                             /\ s \in Range(d[i].stage_numbers)

\* a resumed run has stored event "e2", which two riders report inside the
\* windows of both stages, with both stages in its record
OverlappingEventStored ==
    /\ Present(stored)
    /\ invocations = 2
    /\ failR = {}
    /\ {"r2", "r3"} \subseteq Range(stored[1].riders_processed)
    /\ \E i \in 1..Len(stored[1].events_discovered) :
           /\ stored[1].events_discovered[i].id = "e2"
           /\ stored[1].events_discovered[i].stage_numbers = <<"1", "2">>

\* the events the history of rider r reports inside a stage of the run
ReportedBy(r, st) ==
    {History(r)[k].id : k \in
        {j \in 1..Len(History(r)) :
            /\ IsTDZName(History(r)[j].name)
            /\ History(r)[j].id /= ""
            /\ \E s \in Range(st) : InWindow(History(r)[j].ts, s)}}

\* C18: an upstream failure during one rider scan or one event fetch stays
\* inside that call: the call returns a zero count, the rider is in
\* riders_processed and the event in events_fetched afterwards, and the
\* riders and events behind it in the batch are processed as usual.
UpstreamFailureStaysLocal ==
    /\ Called("rider_batch") =>
           LET a == args[1]
               r == ret[1]
               c == r.value[1].c
           IN /\ r.kind = "returned"
              /\ r.value[1].riders_processed = Len(a.riders)
              /\ Range(a.riders) \subseteq Range(c.riders_processed)
              /\ \A i \in 1..Len(a.riders) :
                     IF a.riders[i] \in a.failing
                     THEN process_rider_found(a.c, a.riders[i],
                              build_stages_info(a.stages), a.failing) = 0
                     ELSE ReportedBy(a.riders[i], a.stages)
                              \subseteq Range(DiscoveredIds(c))
    /\ Called("event") =>
           LET a == args[1]
               r == ret[1]
               tr == r.value[1]
           IN /\ r.kind = "returned"
              /\ Len(tr) = Len(a.event_ids)
              /\ \A i \in 1..Len(tr) :
                     /\ Contains(tr[i].c.events_fetched, tr[i].event_id)
                     /\ (tr[i].requested /\ tr[i].event_id \in a.failing) =>
                            tr[i].returns.count = 0
                     /\ (tr[i].requested /\ tr[i].event_id \notin a.failing) =>
                            /\ tr[i].returns.count = EventResults(tr[i].event_id)
                            /\ tr[i].event_id \in tr[i].cache

\* a batch whose first rider's request failed has gone on to discover the
\* events of its second rider
BatchWentOnAfterFailure ==
    /\ Called("rider_batch")
    /\ args[1].riders = <<"r3", "r5">>
    /\ args[1].failing = {"r3"}
    /\ "e4" \in Range(DiscoveredIds(ret[1].value[1].c))
    /\ "e4" \notin Range(DiscoveredIds(args[1].c))

\* C20: an event that has a cache object and is not in events_fetched is
\* fetched without an upstream request and without a cache write; it is in
\* events_fetched afterwards and the call returns a zero count with the
\* cache key.
CachedEventIsRecovered ==
    Called("event") =>
        LET a == args[1]
            first == ret[1].value[1][1]
        IN (/\ a.event_ids[1] \in a.cached
            /\ ~Contains(a.c.events_fetched, a.event_ids[1])) =>
               /\ ~first.requested
               /\ ~first.written
               /\ first.cache = a.cached
               /\ Contains(first.c.events_fetched, a.event_ids[1])
               /\ first.returns = [count |-> 0, key |-> <<a.event_ids[1]>>]

\* an event with a cache object and no mark has been fetched
CachedEventFetched ==
    /\ Called("event")
    /\ args[1].event_ids[1] = "e2"
    /\ "e2" \in args[1].cached
    /\ ~Contains(args[1].c.events_fetched, "e2")
    /\ Contains(ret[1].value[1][1].c.events_fetched, "e2")

(***************************************************************************)
(* The scheduled pipeline: storage works, no invocation is killed, every   *)
(* invocation has the time for at least one iteration of the loop, and     *)
(* the trigger goes on invoking the handler until a run is complete.       *)
(* args holds the trigger: the payloads it may send.                       *)
(***************************************************************************)
Triggers ==
    {[op |-> "trigger", stage_choices |-> sc, force_restart |-> FALSE] :
        sc \in (SUBSET StageChoices) \ {{}}}
    \cup {[op |-> "trigger", stage_choices |-> {<<"1", "2">>},
           force_restart |-> TRUE]}

\* the upstream fails on nothing, on one rider and one event, or on all
LiveUpstream ==
    UpstreamChoices \cup {[riders |-> RiderIds, events |-> EventIds]}

LiveInit ==
    /\ now = 1
    /\ stored = <<>>
    /\ cache = {}
    /\ raw = <<>>
    /\ \E u \in LiveUpstream : failR = u.riders /\ failE = u.events
    /\ pc = "idle"
    /\ mem = <<>>
    /\ stages = <<>>
    /\ batch = <<>>
    /\ more = FALSE
    /\ origin = "none"
    /\ result = NoResult
    /\ err = "none"
    /\ asked = {}
    /\ call = <<>>
    /\ invocations = 0
    /\ pace = "clear"
    /\ \E tr \in Triggers : args = <<tr>>
    /\ ret = <<>>

\* the run is complete: the last invocation returned status complete
Completed == result.kind = "returned" /\ result.status = "complete"

\* the trigger fires again as long as no invocation has returned complete
LiveInvoke ==
    /\ pc = "idle"
    /\ ~Completed
    /\ pc' = "start"
    /\ result' = NoResult
    /\ call' = <<>>
    /\ invocations' = IF invocations < MaxInvocations
                      THEN invocations + 1 ELSE invocations
    /\ UNCHANGED <<now, stored, cache, raw, failR, failE, mem, stages, batch,
                   more, origin, err, asked>>
    /\ UNCHANGED pace
    /\ UNCHANGED unit

LiveStartPlain == ~args[1].force_restart /\ StartPlain

LiveStartForce == args[1].force_restart /\ StartForce

\* stages_to_process is one of the stage sets the trigger asks for
LiveConfigStages == ConfigStages /\ stages' \in args[1].stage_choices

\* the time runs out, after at least one iteration: the stored checkpoint
\* has the run_count of this invocation only once the loop has saved it
LiveTimeout ==
    /\ pc = "loop"
    /\ Present(stored)
    /\ stored[1].run_count = mem[1].run_count
    /\ LoopTimeout

LiveNext ==
    \/ LiveInvoke \/ LiveStartPlain \/ LiveStartForce
    \/ LoadOk \/ LiveConfigStages
    \/ StageCheckKeep \/ StageCheckReset
    \/ CredsOk
    \/ LiveTimeout \/ LoopRiders \/ RiderItem \/ RiderSave
    \/ PhaseTransition
    \/ LoopEvents \/ FetchSkip \/ FetchRequest \/ FetchPut \/ FetchSave
    \/ LoopFinalize \/ Finalize \/ MarkComplete

LiveSpec == LiveInit /\ [][LiveNext]_vars /\ WF_vars(LiveNext)

\* C19 as claimed: whatever the upstream fails on, repeated invocations
\* that each run at least one iteration of the loop eventually return
\* status complete.
EventuallyComplete == <>Completed

\* the trigger asks for the same stage set every time and never for a
\* restart
SteadyTrigger ==
    /\ args /= <<>>
    /\ Cardinality(args[1].stage_choices) = 1
    /\ ~args[1].force_restart

\* C19, amended: when every invocation asks for the same stage set and none
\* asks for a restart, repeated invocations that each run at least one
\* iteration of the loop eventually return status complete, whatever the
\* upstream fails on.
SteadyRunEventuallyCompletes == SteadyTrigger => <>Completed

\* a steady run in which every rider's request failed has returned complete
CompletedDespiteFailures ==
    /\ SteadyTrigger
    /\ Completed
    /\ failR = RiderIds
    /\ invocations > 1
    /\ Range(riders_with_ids) \subseteq Range(stored[1].riders_processed)

(***************************************************************************)
(* Properties of the handler, continued                                    *)
(***************************************************************************)
\* events_fetched of a checkpoint variable, {} when it holds none
FetchedIn(x) == IF Present(x) THEN Range(x[1].events_fetched) ELSE {}

MarkedNow ==
    FetchedIn(mem') \ (IF Present(mem) THEN FetchedIn(mem) ELSE FetchedIn(stored))

NextBatchReportsPendingWork ==
    /\ Called("next_riders") =>
           LET a == args[1]
               r == ret[1].value[1]
               pending == FilterNotIn(a.all_riders,
                                      Range(a.c.riders_processed))
               left == FilterNotIn(a.all_riders, Range(r.c.riders_processed))
           IN /\ r.taken = Take(pending, a.batch_size)
              /\ Range(r.taken) \ {""} \subseteq Range(r.c.riders_processed)
              /\ r.more_work = (left /= <<>>)
              /\ r.slept = (left /= <<>>)
    /\ Called("next_events") =>
           LET a == args[1]
               r == ret[1].value[1]
               pending == FilterNotIn(DiscoveredIds(a.c),
                                      Range(a.c.events_fetched))
               left == FilterNotIn(DiscoveredIds(r.c),
                                   Range(r.c.events_fetched))
           IN /\ r.taken = Take(pending, a.batch_size)
              /\ Range(r.taken) \subseteq Range(r.c.events_fetched)
              /\ r.more_work = (left /= <<>>)
              /\ r.slept = (left /= <<>>)

\* C23 as claimed: within one invocation, when a batch sends an upstream
\* request and an earlier batch of the invocation has sent one, an
\* inter-batch sleep lies between the two batches; the last rider batch and
\* the first event batch included.
BatchesSeparatedBySleep ==
    [][call' /= <<>> => pace /= "due"]_vars

\* the fields of a checkpoint that record the progress of a run
ProgressFields ==
    {"phase", "riders_processed", "events_discovered", "events_fetched",
     "run_count"}

\* C24 as claimed: when the handler returns status partial, the stored
\* checkpoint has the phase, riders_processed, events_discovered,
\* events_fetched and run_count of the in-memory checkpoint, and the result
\* reports them; also when the time is up before the first iteration of
\* the loop.
PartialResultIsStored ==
    [][(Ends /\ result'.status = "partial") =>
          /\ Present(stored')
          /\ \A f \in ProgressFields : stored'[1][f] = mem[1][f]
          /\ result'.phase = stored'[1].phase
          /\ result'.run_count = stored'[1].run_count
          /\ result'.riders_processed = Len(stored'[1].riders_processed)
          /\ result'.events_discovered = Len(stored'[1].events_discovered)
          /\ result'.events_fetched = Len(stored'[1].events_fetched)]_vars

RECURSIVE SumSeq(_)
SumSeq(q) == IF q = <<>> THEN 0 ELSE Head(q) + SumSeq(Tail(q))

\* the stages a checkpoint records for an event ID
StagesOf(c, id) ==
    UNION {Range(c.events_discovered[i].stage_numbers) :
              i \in {j \in 1..Len(c.events_discovered) :
                        c.events_discovered[j].id = id}}

\* the stages of the run that a history entry matches: its name has the
\* campaign marker, it has an event ID, its timestamp lies in the window
MatchedStages(e, st) ==
    IF IsTDZName(e.name) /\ e.id /= ""
    THEN {x \in Range(st) : InWindow(e.ts, x)}
    ELSE {}

\* C25: for a rider with an ID whom the checkpoint does not list yet,
\* process_rider leaves in events_discovered, besides what was there, one
\* record for exactly the event IDs of the history entries that match a
\* stage, with exactly the stages matched (window boundaries included, a
\* zero timestamp never matching); it returns the number of (entry,
\* matching stage) pairs, and the rider is in riders_processed afterwards.
ProcessRiderRecordsMatches ==
    (/\ Called("scan")
     /\ ~Contains(args[1].c.riders_processed, args[1].rider_id)) =>
        LET a == args[1]
            r == ret[1].value[1]
            h == a.history
        IN /\ Range(DiscoveredIds(r.c)) =
                  Range(DiscoveredIds(a.c))
                  \cup {h[k].id : k \in {j \in 1..Len(h) :
                                    MatchedStages(h[j], a.stages) /= {}}}
           /\ \A i, j \in 1..Len(r.c.events_discovered) :
                  r.c.events_discovered[i].id = r.c.events_discovered[j].id
                      => i = j
           /\ \A id \in Range(DiscoveredIds(r.c)) :
                  StagesOf(r.c, id) =
                      StagesOf(a.c, id)
                      \cup UNION {MatchedStages(h[k], a.stages) :
                                     k \in {j \in 1..Len(h) : h[j].id = id}}
           /\ r.found =
                  SumSeq([k \in 1..Len(h) |->
                             Cardinality(MatchedStages(h[k], a.stages))])
           /\ Contains(r.c.riders_processed, a.rider_id)
           /\ r.c.riders_processed = Append(a.c.riders_processed, a.rider_id)

\* a scan of a new run over a history with an entry on the end of stage
\* 1's window, which is inside stage 2's window, and an entry with another
\* name: one record with both stages, a count of 2
ScannedBoundaryEntry ==
    /\ Called("scan")
    /\ args[1].c.events_discovered = <<>>
    /\ args[1].stages = <<"1", "2">>
    /\ args[1].history = <<Entry(NONTDZ, 20, "e1"), Entry(TDZ2, 20, "e2")>>
    /\ ret[1].value[1].found = 2
    /\ DiscoveredView(ret[1].value[1].c) = {<<"e2", {"1", "2"}>>}
    /\ ret[1].value[1].c.riders_processed = <<"r1">>

\* C26 as claimed: when a storage read or write of the finalization fails,
\* the stored accumulator stays as it was and the handler returns status
\* error; the stored checkpoint then has phase complete, no completed_at
\* and the riders and events of the in-memory checkpoint; an invocation
\* that loads a checkpoint in phase complete sends no upstream request.
FinalizeErrorKeepsProgress ==
    [][/\ (pc = "finalize" /\ pc' = "except") => raw' = raw
       /\ (pc = "except" /\ err = "finalize" /\ Ends) =>
              /\ result'.kind = "returned"
              /\ result'.status = "error"
              /\ raw' = raw
              /\ Present(stored')
              /\ stored'[1].phase = "complete"
              /\ stored'[1].completed_at = NoTime
              /\ \A f \in {"riders_processed", "events_discovered",
                           "events_fetched"} :
                     stored'[1][f] = mem[1][f]
       /\ (Present(mem) /\ mem[1].phase = "complete") =>
              call' = <<>>]_vars

\* C27: in every checkpoint, stored and in memory, phase fetch_results or
\* complete means that every registry rider with an ID is in
\* riders_processed, and phase complete means that every key of
\* events_discovered is in events_fetched; whatever was killed or failed
\* on the way.
PhaseGated ==
    \A x \in {stored, mem} :
        Present(x) =>
            /\ x[1].phase \in {"fetch_results", "complete"} =>
                   Range(riders_with_ids) \subseteq Range(x[1].riders_processed)
            /\ x[1].phase = "complete" =>
                   Range(DiscoveredIds(x[1])) \subseteq Range(x[1].events_fetched)

\* a resumed run whose stored checkpoint has reached phase complete, with
\* a rider whose request failed and an event whose request failed
GatedRunComplete ==
    /\ Present(stored)
    /\ stored[1].phase = "complete"
    /\ stored[1].run_count = 2
    /\ failR = {"r3"}
    /\ Len(stored[1].events_discovered) >= 3
    /\ "e2" \in Range(stored[1].events_fetched)

(***************************************************************************)
(* The schedule after completion: storage works, every invocation has the  *)
(* time to finish, and the rule goes on invoking the handler at a fixed     *)
(* interval shorter than the TTL, with the same stage set and no            *)
(* force_restart, up to hour MaxClock.  args holds the rule.                *)
(***************************************************************************)
\* the last hour at which the rule fires: more than two TTLs after the
\* first invocation
MaxClock == 75

\* the rule of the stack fires every hour; manual schedules are slower
Schedules ==
    {[op |-> "schedule", stage_choices |-> {st}, force_restart |-> FALSE,
      interval |-> i] :
        st \in StageChoices, i \in {1, CHECKPOINT_TTL_HOURS - 1}}

ScheduleInit ==
    /\ now = 1
    /\ stored = <<>>
    /\ cache = {}
    /\ raw = <<>>
    /\ \E u \in UpstreamChoices : failR = u.riders /\ failE = u.events
    /\ pc = "idle"
    /\ mem = <<>>
    /\ stages = <<>>
    /\ batch = <<>>
    /\ more = FALSE
    /\ origin = "none"
    /\ result = NoResult
    /\ err = "none"
    /\ asked = {}
    /\ call = <<>>
    /\ invocations = 0
    /\ pace = "clear"
    /\ \E sch \in Schedules : args = <<sch>>
    /\ ret = <<>>

\* the rule fires: at once the first time, then one interval after the
\* last invocation
ScheduleInvoke ==
    /\ pc = "idle"
    /\ now' = IF invocations = 0 THEN now ELSE now + args[1].interval
    /\ now' <= MaxClock
    /\ pc' = "start"
    /\ result' = NoResult
    /\ call' = <<>>
    /\ invocations' = IF invocations < MaxInvocations
                      THEN invocations + 1 ELSE invocations
    /\ UNCHANGED <<stored, cache, raw, failR, failE, mem, stages, batch,
                   more, origin, err, asked>>
    /\ UNCHANGED pace
    /\ UNCHANGED unit

ScheduleNext ==
    \/ ScheduleInvoke \/ LiveStartPlain
    \/ LoadOk \/ LiveConfigStages
    \/ StageCheckKeep
    \/ CredsOk
    \/ LoopRiders \/ RiderItem \/ RiderSave
    \/ PhaseTransition
    \/ LoopEvents \/ FetchRequest \/ FetchPut \/ FetchSave
    \/ LoopFinalize \/ Finalize \/ MarkComplete

ScheduleSpec ==
    ScheduleInit /\ [][ScheduleNext]_vars /\ WF_vars(ScheduleNext)

NoDuplicates(q) == \A i, j \in 1..Len(q) : q[i] = q[j] => i = j

\* C29: with one invocation at a time, every checkpoint written over a
\* stored checkpoint that has not expired has riders_processed,
\* events_discovered keys and events_fetched that include those of the
\* checkpoint it replaces (a force_restart and a stage-set change delete
\* the stored checkpoint first); and no stored checkpoint lists a rider or
\* an event twice, also when the registry lists a rider twice.
StoredProgressMonotone ==
    [][/\ (Present(stored') /\ stored' /= stored) =>
              /\ NoDuplicates(stored'[1].riders_processed)
              /\ NoDuplicates(stored'[1].events_fetched)
              /\ NoDuplicates(DiscoveredIds(stored'[1]))
       /\ (/\ Present(stored)
           /\ Present(stored')
           /\ stored' /= stored
           /\ ~is_expired(from_dict(stored[1]), now)) =>
              /\ Range(stored[1].riders_processed)
                     \subseteq Range(stored'[1].riders_processed)
              /\ Range(DiscoveredIds(stored[1]))
                     \subseteq Range(DiscoveredIds(stored'[1]))
              /\ Range(stored[1].events_fetched)
                     \subseteq Range(stored'[1].events_fetched)]_vars

\* a resumed invocation has written the last rider batch over the stored
\* checkpoint of the invocation before; the rider listed twice in the
\* registry is stored once
StoredProgressGrew ==
    /\ origin = "stored"
    /\ pc = "rider_trans"
    /\ Present(stored)
    /\ stored[1].run_count = 2
    /\ stored[1].riders_processed = <<"r1", "r2", "r3", "r4", "r5", "r6">>
    /\ Len(riders_with_ids) > Len(stored[1].riders_processed)

(***************************************************************************)
(* Overlapping invocations: two execution environments run the handler at  *)
(* the same time on the same bucket.  Each has its own position and its    *)
(* own in-memory checkpoint; the stored checkpoint, the cache and the      *)
(* accumulator are shared.  The handler variables hold the environment     *)
(* that takes the next step, args holds the trigger payload and the        *)
(* environment that waits.  Storage works, the upstream is deterministic,  *)
(* every invocation asks for the same stage set.                           *)
(***************************************************************************)
\* an execution environment in which no invocation runs
IdleEnvironment ==
    [pc |-> "idle", mem |-> <<>>, stages |-> <<>>, batch |-> <<>>,
     more |-> FALSE, origin |-> "none", result |-> NoResult, err |-> "none",
     pace |-> "clear"]

OverlapInit ==
    /\ now = 1
    /\ stored = <<>>
    /\ cache = {}
    /\ raw = <<>>
    /\ \E u \in UpstreamChoices : failR = u.riders /\ failE = u.events
    /\ pc = "idle"
    /\ mem = <<>>
    /\ stages = <<>>
    /\ batch = <<>>
    /\ more = FALSE
    /\ origin = "none"
    /\ result = NoResult
    /\ err = "none"
    /\ asked = {}
    /\ call = <<>>
    /\ invocations = 0
    /\ pace = "clear"
    /\ \E st \in StageChoices :
           args = <<[op |-> "overlap", stage_choices |-> {st},
                     force_restart |-> FALSE, other |-> IdleEnvironment]>>
    /\ ret = <<>>

\* the other environment takes the next step
OverlapSwitch ==
    /\ LET o == args[1].other
       IN /\ pc' = o.pc
          /\ mem' = o.mem
          /\ stages' = o.stages
          /\ batch' = o.batch
          /\ more' = o.more
          /\ origin' = o.origin
          /\ result' = o.result
          /\ err' = o.err
          /\ pace' = o.pace
    /\ args' = <<[args[1] EXCEPT !.other =
                     [pc |-> pc, mem |-> mem, stages |-> stages,
                      batch |-> batch, more |-> more, origin |-> origin,
                      result |-> result, err |-> err, pace |-> pace]]>>
    /\ call' = <<>>
    /\ UNCHANGED <<now, stored, cache, raw, failR, failE, asked, invocations,
                   ret>>

OverlapNext ==
    \/ OverlapSwitch
    \/ Invoke \/ LiveStartPlain
    \/ LoadOk \/ LiveConfigStages
    \/ StageCheckKeep
    \/ CredsOk
    \/ LoopTimeout \/ LoopRiders \/ RiderItem \/ RiderSave
    \/ PhaseTransition
    \/ LoopEvents \/ FetchSkip \/ FetchRequest \/ FetchPut \/ FetchSave
    \/ LoopFinalize \/ Finalize \/ MarkComplete

OverlapSpec == OverlapInit /\ [][OverlapNext]_vars

\* the progress a checkpoint records, without its bookkeeping fields
\* (run_count and the three timestamps)
Progress(c) ==
    [phase |-> c.phase,
     riders_processed |-> c.riders_processed,
     events_discovered |-> c.events_discovered,
     events_fetched |-> c.events_fetched,
     stage_numbers |-> c.stage_numbers,
     tour_id |-> c.tour_id]

\* the checkpoints the loop saves in the fetch_results phase, from c on
RECURSIVE EventSaves(_)
EventSaves(c) ==
    LET pending == FilterNotIn(DiscoveredIds(c), Range(c.events_fetched))
        b == Take(pending, EVENT_BATCH_SIZE)
        c1 == fetch_batch(c, b)
    IN IF Len(pending) > Len(b)
       THEN {c1} \cup EventSaves(c1)
       ELSE {c1, NextPhase(c1)}

\* the checkpoints the loop saves in the discover_riders phase and after
\* it, from c on
RECURSIVE RiderSaves(_, _, _, _)
RiderSaves(c, all_riders, st, failing) ==
    LET pending == FilterNotIn(all_riders, Range(c.riders_processed))
        b == Take(pending, RIDER_BATCH_SIZE)
        c1 == process_batch(c, b, build_stages_info(st), failing)
    IN IF Len(pending) > Len(b)
       THEN {c1} \cup RiderSaves(c1, all_riders, st, failing)
       ELSE {c1, NextPhase(c1)} \cup EventSaves(NextPhase(c1))

\* the progress of every checkpoint that invocations running one after the
\* other store, however the run is cut into invocations
SequentialProgress(st, failing) ==
    {Progress(c) :
        c \in RiderSaves(
                 StageChecked(increment_run_count(DiscoveryCheckpoint, 1),
                              st, 1),
                 riders_with_ids, st, failing)}

\* C30: when invocations overlap and interleave their saves in any order,
\* every stored checkpoint records a progress (phase, riders_processed,
\* events_discovered, events_fetched, stage set) that invocations running
\* one after the other also store, and a stored checkpoint in phase
\* complete has the events_discovered and events_fetched of the
\* uninterrupted run.
OverlapStoresSequentialProgress ==
    Present(stored) =>
        /\ Progress(stored[1])
               \in SequentialProgress(stored[1].stage_numbers, failR)
        /\ stored[1].phase = "complete" =>
               LET one == OneShot(stored[1].stage_numbers, failR, now)
               IN /\ DiscoveredView(stored[1]) = DiscoveredView(one)
                  /\ FetchedView(stored[1]) = FetchedView(one)

\* two invocations overlapped: one has returned status complete, and the
\* other, still running, has since overwritten the completed checkpoint
\* with its own earlier progress
LaggingSaveAfterComplete ==
    /\ args[1].other.result.status = "complete"
    /\ pc = "loop"
    /\ Present(stored)
    /\ stored[1].phase = "discover_riders"
    /\ Len(stored[1].riders_processed) < Cardinality(asked \cap RiderIds)
    /\ cache /= {}

====
